---- MODULE Spec2Model ----
(***************************************************************************)
(* A model of the procman sheriff (bot_procman/sheriff.py): the command   *)
(* model with its derived status, the per-deputy command tables, the      *)
(* inbound PMD_INFO / PMD_ORDERS handlers, the operator mutators and the  *)
(* orders broadcast.  One action per handler; every action carries out    *)
(* the whole handler, including the event fan-out and the broadcast.      *)
(*                                                                         *)
(* Abstractions: the host metrics and per-command cpu/memory figures are  *)
(* plain copies of message fields and are left out; the sheriff name is   *)
(* left out of the orders; python's None is the string "None"; an         *)
(* exception leaves the state as the handler had changed it up to the     *)
(* raise and is recorded in `raised`.  Assertions are enabled (the        *)
(* interpreter's default).                                                 *)
(***************************************************************************)
EXTENDS Integers, Sequences, FiniteSets, TLC

(***************************************************************************)
(* Bounds of the model.                                                    *)
(***************************************************************************)
\* number of handler calls in one behaviour
MaxSteps == 3
\* number of inbound messages delivered in one behaviour
MaxInbound == 2
\* sheriff ids that inbound messages mention are 0..MaxMsgId
MaxMsgId == 1
\* a fresh info message lists at most MaxInfoLen commands, an outdated one at
\* most MaxOldInfoLen, an orders message at most MaxOrdersLen
MaxInfoLen == 2
MaxOldInfoLen == 1
MaxOrdersLen == 1
\* add_command is offered while the cursor is at most MaxAdds
MaxAdds == 2
\* start / restart are offered while desired_runid is below MaxRunid
MaxRunid == 2
\* a loaded configuration holds at most MaxCfgCmds commands
MaxCfgCmds == 1
\* calls while the removal of commands is studied
MaxRemovalSteps == 6
\* calls from outside the executor while empty cohorts are studied
MaxCohortSteps == 4
MaxLoadSteps == 3
MaxLoadCmds == 2
MaxLoadScripts == 2
MaxWrapSteps == 4
MaxCallScripts == 3
MaxCallActions == 2
\* calls while the timeouts of the executor are studied
MaxTimerSteps == 3
\* calls while the broadcast of the orders is studied
MaxBroadcastSteps == 4
\* commands of a peer's orders, and calls while an observer is studied
MaxPeerCmds == 2
MaxMirrorSteps == 3
\* commands of a group and actions of a script in a config file
MaxFileCmds == 1
MaxFileActions == 1
\* calls from outside the executor while a script is studied
MaxScriptSteps == 4
\* calls on the deputy whose orders are studied
MaxVarSteps == 3
\* iterations of the allocation loop when it is studied on its own
MaxAllocProbes == 3
\* number of handler calls in one behaviour of the command life cycle
MaxLifeSteps == 5

(***************************************************************************)
(* Program constants.                                                      *)
(***************************************************************************)
TRYING_TO_START == "Command Sent"
RUNNING         == "Running"
TRYING_TO_STOP  == "Command Sent"
REMOVING        == "Command Sent"
STOPPED_OK      == "Stopped (OK)"
STOPPED_ERROR   == "Stopped (Error)"
UNKNOWN         == "Unknown"
RESTARTING      == "Command Sent"

\* signal.SIGTERM, signal.SIGINT, signal.SIGKILL
SIGTERM == 15
SIGINT  == 2
SIGKILL == 9

\* desired_runid wraps to 1 once it exceeds 2 << 31, which is 4 * RunidWrapQuarter
\* (the model's integers are 32 bits wide, so the limit is kept in quarters)
RunidWrapQuarter == 1073741824
\* the sheriff id cursor wraps to 1 once it exceeds 1 << 30
SheriffIdWrap == 1073741824
\* __get_free_sheriff_id probes 1 << 16 ids
MaxProbes == 65536
\* info messages older than this many seconds are meant to be ignored
MaxInfoAgeSec == 30
\* timestamp_now() counts microseconds
UsecPerSec == 1000000

None == "None"

(***************************************************************************)
(* Input domains.                                                          *)
(***************************************************************************)
Hosts   == {"h1", "h2"}
Strs    == {"a", "b"}
MsgIds  == 1 .. MaxMsgId
\* (pid, exit_code, actual_runid) a deputy reports of a command: not yet
\* started, running in its first run, first run exited 0, first run killed
\* by SIGTERM
MsgObs  == { <<0, 0, 0>>, <<7, 0, 1>>, <<0, 0, 1>>, <<0, SIGTERM, 1>> }
\* (desired_runid, force_quit) a peer sheriff orders for a command
MsgIntents == { <<0, FALSE>>, <<1, FALSE>>, <<1, TRUE>> }
\* the clock starts here (microseconds)
StartTime == 40 * UsecPerSec

VARIABLES
    deputies,         \* Sheriff.deputies: host -> [commands, last_update_utime]
    _is_observer,     \* Sheriff._is_observer
    _next_sheriff_id, \* Sheriff._next_sheriff_id
    now,              \* the value timestamp_now() returns
    op,               \* the handler that ran in the last step, with its arguments
    raised,           \* the exception the last handler raised, or None
    events,           \* the signals the last handler emitted, in order
    published,        \* the PMD_ORDERS messages the last handler published
    inbound,          \* inbound messages delivered so far
    steps,            \* handler calls so far
    probe,            \* input and result of a pure function under test
    scripts,          \* Sheriff.scripts
    active_script_context,  \* Sheriff.active_script_context: the chain of
                      \* ScriptExecutionContext objects, outermost first
    waiting_on_commands,    \* Sheriff.waiting_on_commands
    waiting_for_status,     \* Sheriff.waiting_for_status
    last_script_action_time,  \* Sheriff.last_script_action_time (0 for None)
    timeouts,         \* gobject timeouts of _execute_next_script_action not yet run
    returned          \* the list the last handler returned (<< >> for None)

vars == << deputies, _is_observer, _next_sheriff_id, now, op, raised,
           events, published, inbound, steps, probe, scripts,
          active_script_context, waiting_on_commands, waiting_for_status,
          last_script_action_time, timeouts, returned >>

\* the script executor's part of the state
executor == << scripts, active_script_context, waiting_on_commands,
              waiting_for_status, last_script_action_time, timeouts, returned >>

(***************************************************************************)
(* SheriffDeputyCommand                                                    *)
(***************************************************************************)
\* SheriffDeputyCommand.__init__
NewCommand ==
    [ sheriff_id |-> 0, pid |-> -1, exit_code |-> 0, name |-> "",
      nickname |-> "", group |-> "", desired_runid |-> 0,
      force_quit |-> FALSE, scheduled_for_removal |-> FALSE,
      actual_runid |-> 0, auto_respawn |-> FALSE ]

\* os.WIFSIGNALED / os.WTERMSIG on a non-negative wait status
WTERMSIG(st)    == st % 128
WIFSIGNALED(st) == (st % 128) \notin {0, 127}

\* a faulty status(): a command that is being removed is not told apart
statusBranch_IgnoresRemoval(c) ==
    IF c.desired_runid # c.actual_runid /\ ~c.force_quit THEN
        IF c.pid = 0 THEN "TRYING_TO_START" ELSE "RESTARTING"
    ELSE IF c.desired_runid = c.actual_runid THEN
        IF c.pid > 0 THEN
            IF ~c.force_quit THEN "RUNNING" ELSE "TRYING_TO_STOP"
        ELSE
            IF c.exit_code = 0 THEN "STOPPED_OK"
            ELSE IF c.force_quit /\ WIFSIGNALED(c.exit_code)
                    /\ WTERMSIG(c.exit_code) \in {SIGTERM, SIGINT, SIGKILL}
                 THEN "STOPPED_OK"
            ELSE "STOPPED_ERROR"
    ELSE "UNKNOWN"

\* which constant SheriffDeputyCommand.status returns
statusBranch(c) ==
    IF c.desired_runid # c.actual_runid /\ ~c.force_quit THEN
        IF c.pid = 0 THEN "TRYING_TO_START" ELSE "RESTARTING"
    ELSE IF c.desired_runid = c.actual_runid THEN
        IF c.pid > 0 THEN
            IF ~c.force_quit /\ ~c.scheduled_for_removal
            THEN "RUNNING" ELSE "TRYING_TO_STOP"
        ELSE
            IF c.scheduled_for_removal THEN "REMOVING"
            ELSE IF c.exit_code = 0 THEN "STOPPED_OK"
            ELSE IF c.force_quit /\ WIFSIGNALED(c.exit_code)
                    /\ WTERMSIG(c.exit_code) \in {SIGTERM, SIGINT, SIGKILL}
                 THEN "STOPPED_OK"
            ELSE "STOPPED_ERROR"
    ELSE "UNKNOWN"

\* the value of each status constant
StatusValue(b) ==
    CASE b = "TRYING_TO_START" -> TRYING_TO_START
      [] b = "RESTARTING"      -> RESTARTING
      [] b = "RUNNING"         -> RUNNING
      [] b = "TRYING_TO_STOP"  -> TRYING_TO_STOP
      [] b = "REMOVING"        -> REMOVING
      [] b = "STOPPED_OK"      -> STOPPED_OK
      [] b = "STOPPED_ERROR"   -> STOPPED_ERROR
      [] OTHER                 -> UNKNOWN

\* SheriffDeputyCommand.status
status(c) == StatusValue(statusBranch(c))

\* a faulty _update_from_cmd_info: the observation also overwrites the intent
_update_from_cmd_info_AdoptsRunid(c, cmd_info) ==
    [ c EXCEPT !.pid = cmd_info.pid,
               !.actual_runid = cmd_info.actual_runid,
               !.exit_code = cmd_info.exit_code,
               !.desired_runid = cmd_info.actual_runid ]

\* a faulty _update_from_cmd_info: the natural-completion rule is left out
_update_from_cmd_info_NoCompletion(c, cmd_info) ==
    [ c EXCEPT !.pid = cmd_info.pid,
               !.actual_runid = cmd_info.actual_runid,
               !.exit_code = cmd_info.exit_code ]

\* SheriffDeputyCommand._update_from_cmd_info
_update_from_cmd_info(c, cmd_info) ==
    LET u == [ c EXCEPT !.pid = cmd_info.pid,
                        !.actual_runid = cmd_info.actual_runid,
                        !.exit_code = cmd_info.exit_code ]
    IN  IF u.pid = 0 /\ u.actual_runid = u.desired_runid
           /\ ~u.auto_respawn /\ ~u.force_quit
        THEN [ u EXCEPT !.force_quit = TRUE ]
        ELSE u

\* SheriffDeputyCommand._update_from_cmd_order (the assertion on sheriff_id
\* holds at its only call site, which looks the command up by that id)
_update_from_cmd_order(c, cmd_order) ==
    [ c EXCEPT !.name = cmd_order.name,
               !.nickname = cmd_order.nickname,
               !.group = cmd_order.group,
               !.desired_runid = cmd_order.desired_runid,
               !.force_quit = cmd_order.force_quit ]

\* d > (2 << 31)
ExceedsRunidWrap(d) ==
    \/ d \div 4 > RunidWrapQuarter
    \/ d \div 4 = RunidWrapQuarter /\ d % 4 > 0

\* the bump shared by _start and _restart
BumpRunid(c) ==
    LET d == c.desired_runid + 1
    IN  [ c EXCEPT !.desired_runid = IF ExceedsRunidWrap(d) THEN 1 ELSE d,
                   !.force_quit = FALSE ]

\* a faulty _start: the running test is pid # 0
_start_NonzeroPid(c) == IF c.pid # 0 /\ ~c.force_quit THEN c ELSE BumpRunid(c)

\* SheriffDeputyCommand._start
_start(c) == IF c.pid > 0 /\ ~c.force_quit THEN c ELSE BumpRunid(c)

\* a faulty _restart: a running command is left alone, as by _start
_restart_UnlessRunning(c) == IF c.pid > 0 /\ ~c.force_quit THEN c ELSE BumpRunid(c)

\* SheriffDeputyCommand._restart
_restart(c) == BumpRunid(c)

\* a faulty _stop: the command is taken to be stopped at once
_stop_ForgetsPid(c) == [ c EXCEPT !.force_quit = TRUE, !.pid = 0 ]

\* SheriffDeputyCommand._stop
_stop(c) == [ c EXCEPT !.force_quit = TRUE ]

(***************************************************************************)
(* SheriffDeputy                                                           *)
(***************************************************************************)
\* SheriffDeputy.__init__
NoCommands == [ k \in {} |-> NewCommand ]
NoVariables == [ n \in {} |-> "" ]
NewDeputy == [ commands |-> NoCommands, last_update_utime |-> 0,
               variables |-> NoVariables ]

\* the one element of a singleton set; The({ e : x \in { v } }) is e with x
\* bound to the value of v, as a local variable of the code is bound once
The(S) == CHOOSE r \in S : TRUE

\* d[k] = v on a python dict
DictSet(d, k, v) == [ x \in (DOMAIN d) \cup {k} |-> IF x = k THEN v ELSE d[x] ]

\* del d[k] on a python dict
DictDel(d, k) == [ x \in (DOMAIN d) \ {k} |-> d[x] ]

\* the keys of a dict of small integers in the order CPython iterates them
RECURSIVE KeysInOrder(_)
KeysInOrder(S) ==
    IF S = {} THEN << >>
    ELSE LET m == CHOOSE x \in S : \A y \in S : x <= y
         IN  << m >> \o KeysInOrder(S \ {m})

\* a faulty _add_command: the assertion on sheriff_id is left out
_add_command_NoAssert(commands, newcmd) ==
    [ raised |-> None, commands |-> DictSet(commands, newcmd.sheriff_id, newcmd) ]

\* SheriffDeputy._add_command
_add_command(commands, newcmd) ==
    IF newcmd.sheriff_id = 0
    THEN [ raised |-> "AssertionError", commands |-> commands ]
    ELSE [ raised |-> None,
           commands |-> DictSet(commands, newcmd.sheriff_id, newcmd) ]

\* a status change as the handlers record it: the command (by its key; the
\* python tuple holds a reference to the object), old and new status
Change(id, old, new) == [ sheriff_id |-> id, old |-> old, new |-> new ]

\* if old_status != new_status: status_changes.append((cmd, old_status, new_status))
Recorded(changes, id, old_status, new_status) ==
    IF old_status # new_status
    THEN Append(changes, Change(id, old_status, new_status))
    ELSE changes

\* the loop over dep_info.cmds of SheriffDeputy._update_from_deputy_info
RECURSIVE InfoLoop(_, _, _)
InfoLoop(commands, cmds, changes) ==
    IF cmds = << >> THEN
        [ raised |-> None, commands |-> commands, changes |-> changes,
          rest |-> << >> ]
    ELSE
        LET cmd_info == Head(cmds)
            id == cmd_info.sheriff_id
            known == id \in DOMAIN commands
            created == [ NewCommand EXCEPT
                           !.sheriff_id = id,
                           !.name = cmd_info.name,
                           !.nickname = cmd_info.nickname,
                           !.group = cmd_info.group,
                           !.desired_runid = cmd_info.actual_runid,
                           !.auto_respawn = cmd_info.auto_respawn ]
            old_status == IF known THEN status(commands[id]) ELSE None
        IN  The({
              IF added.raised # None THEN
                  [ raised |-> added.raised, commands |-> added.commands,
                    changes |-> changes, rest |-> cmds ]
              ELSE
                  The({ InfoLoop(DictSet(added.commands, id, cmd), Tail(cmds),
                                 Recorded(changes, id, old_status, status(cmd)))
                        : cmd \in { _update_from_cmd_info(added.commands[id], cmd_info) } })
              : added \in { IF known
                            THEN [ raised |-> None, commands |-> commands ]
                            ELSE _add_command(commands, created) } })

\* the ids an inbound message lists
UpdatedIds(cmds) == { cmds[i].sheriff_id : i \in DOMAIN cmds }

\* binds each recorded change to the command object as it is when the
\* handler returns (`table` holds every object the changes refer to)
Bind(changes, table) ==
    [ i \in DOMAIN changes |->
        [ cmd |-> table[changes[i].sheriff_id],
          old |-> changes[i].old, new |-> changes[i].new ] ]

\* SheriffDeputy._update_from_deputy_info; t is timestamp_now()
_update_from_deputy_info(dep, dep_info, t) ==
    The({
      IF looped.raised # None THEN
          [ raised |-> looped.raised,
            dep |-> [ dep EXCEPT !.commands = looped.commands ],
            status_changes |-> << >>, rest |-> looped.rest ]
      ELSE
          The({
            LET order == KeysInOrder(can_safely_remove)
                removals == [ i \in DOMAIN order |->
                                Change(order[i], status(looped.commands[order[i]]), None) ]
                kept == [ k \in (DOMAIN looped.commands) \ can_safely_remove |->
                            looped.commands[k] ]
            IN  [ raised |-> None, rest |-> << >>,
                  dep |-> [ dep EXCEPT !.commands = kept, !.last_update_utime = t ],
                  status_changes |->
                      Bind(looped.changes \o removals, looped.commands) ]
            : can_safely_remove \in
                { { k \in DOMAIN looped.commands :
                      looped.commands[k].scheduled_for_removal
                      /\ k \notin UpdatedIds(dep_info.cmds) } } })
      : looped \in { InfoLoop(dep.commands, dep_info.cmds, << >>) } })

\* the loop over dep_orders.cmds of SheriffDeputy._update_from_deputy_orders
RECURSIVE OrdersLoop(_, _, _)
OrdersLoop(commands, cmds, changes) ==
    IF cmds = << >> THEN
        [ raised |-> None, commands |-> commands, changes |-> changes,
          rest |-> << >> ]
    ELSE
        LET cmd_order == Head(cmds)
            id == cmd_order.sheriff_id
            known == id \in DOMAIN commands
            created == [ NewCommand EXCEPT
                           !.sheriff_id = id,
                           !.name = cmd_order.name,
                           !.nickname = cmd_order.nickname,
                           !.group = cmd_order.group,
                           !.desired_runid = cmd_order.desired_runid,
                           !.auto_respawn = cmd_order.auto_respawn ]
            old_status == IF known THEN status(commands[id]) ELSE None
        IN  The({
              IF added.raised # None THEN
                  [ raised |-> added.raised, commands |-> added.commands,
                    changes |-> changes, rest |-> cmds ]
              ELSE
                  The({ OrdersLoop(DictSet(added.commands, id, cmd), Tail(cmds),
                                   Recorded(changes, id, old_status, status(cmd)))
                        : cmd \in { _update_from_cmd_order(added.commands[id], cmd_order) } })
              : added \in { IF known
                            THEN [ raised |-> None, commands |-> commands ]
                            ELSE _add_command(commands, created) } })

\* the changes the second loop of _update_from_deputy_orders records, for the
\* keys in `order` that the orders do not list
RECURSIVE UnlistedChanges(_, _, _)
UnlistedChanges(commands, order, updated_ids) ==
    IF order = << >> THEN << >>
    ELSE LET k == Head(order)
         IN  ( IF k \notin updated_ids
               THEN Recorded(<< >>, k, status(commands[k]),
                             status([ commands[k] EXCEPT !.scheduled_for_removal = TRUE ]))
               ELSE << >> )
             \o UnlistedChanges(commands, Tail(order), updated_ids)

\* SheriffDeputy._update_from_deputy_orders
_update_from_deputy_orders(dep, dep_orders) ==
    The({
      IF looped.raised # None THEN
          [ raised |-> looped.raised,
            dep |-> [ dep EXCEPT !.commands = looped.commands ],
            status_changes |-> << >>, rest |-> looped.rest ]
      ELSE
          The({
            [ raised |-> None, rest |-> << >>,
              dep |-> [ dep EXCEPT !.commands = marked ],
              status_changes |->
                  Bind(looped.changes
                         \o UnlistedChanges(looped.commands,
                                KeysInOrder(DOMAIN looped.commands),
                                UpdatedIds(dep_orders.cmds)),
                       marked) ]
            : marked \in
                { [ k \in DOMAIN looped.commands |->
                      IF k \notin UpdatedIds(dep_orders.cmds)
                      THEN [ looped.commands[k] EXCEPT !.scheduled_for_removal = TRUE ]
                      ELSE looped.commands[k] ] } })
      : looped \in { OrdersLoop(dep.commands, dep_orders.cmds, << >>) } })

\* SheriffDeputy.owns_command.  The command is an object held in the table of
\* deputy `owner`; `self.commands[id] is command` compares identities, so it
\* is true only of the owner's table.
owns_command(host, dep, owner, cmd) ==
    cmd.sheriff_id \in DOMAIN dep.commands /\ host = owner

\* a faulty _schedule_command_for_removal: the command is deleted at once
\* whether the deputy has reported or not
_schedule_command_for_removal_AtOnce(host, dep, owner, cmd) ==
    IF ~owns_command(host, dep, owner, cmd) THEN
        [ raised |-> "KeyError", dep |-> dep, status_changes |-> << >> ]
    ELSE
        [ raised |-> None,
          dep |-> [ dep EXCEPT !.commands = DictDel(dep.commands, cmd.sheriff_id) ],
          status_changes |->
              << [ cmd |-> [ cmd EXCEPT !.scheduled_for_removal = TRUE ],
                   old |-> status(cmd), new |-> None ] >> ]

\* SheriffDeputy._schedule_command_for_removal on deputy `host`, for the
\* command object cmd held by deputy `owner`
_schedule_command_for_removal(host, dep, owner, cmd) ==
    IF ~owns_command(host, dep, owner, cmd) THEN
        [ raised |-> "KeyError", dep |-> dep, status_changes |-> << >> ]
    ELSE
        LET old_status == status(cmd)
            marked == [ cmd EXCEPT !.scheduled_for_removal = TRUE ]
        IN  IF dep.last_update_utime = 0 THEN
                [ raised |-> None,
                  dep |-> [ dep EXCEPT !.commands = DictDel(dep.commands, cmd.sheriff_id) ],
                  status_changes |->
                      << [ cmd |-> marked, old |-> old_status, new |-> None ] >> ]
            ELSE
                [ raised |-> None,
                  dep |-> [ dep EXCEPT !.commands[cmd.sheriff_id] = marked ],
                  status_changes |->
                      << [ cmd |-> marked, old |-> old_status, new |-> status(marked) ] >> ]

\* one sheriff_cmd_t of an orders message
OrderOf(cmd) ==
    [ name |-> cmd.name, nickname |-> cmd.nickname,
      sheriff_id |-> cmd.sheriff_id, desired_runid |-> cmd.desired_runid,
      force_quit |-> cmd.force_quit, group |-> cmd.group,
      auto_respawn |-> cmd.auto_respawn ]

\* SheriffDeputy.set_variable
set_variable(dep, name, val) ==
    [ dep EXCEPT !.variables = DictSet(dep.variables, name, val) ]

\* SheriffDeputy.remove_variable
remove_variable(dep, name) ==
    IF name \in DOMAIN dep.variables
    THEN [ dep EXCEPT !.variables = DictDel(dep.variables, name) ]
    ELSE dep

\* the names a deputy's variables may have, in the order the dict yields them
VarNames == << "x", "y" >>

\* the keys of self.variables in iteration order
VariablesInOrder(dep) == SelectSeq(VarNames, LAMBDA n : n \in DOMAIN dep.variables)

\* a faulty _make_orders_message: ncmds counts the commands being removed too
_make_orders_message_CountsRemoved(host, dep) ==
    [ host |-> host,
      ncmds |-> Cardinality(DOMAIN dep.commands),
      cmds |-> [ i \in DOMAIN KeysInOrder({ k \in DOMAIN dep.commands :
                                               ~dep.commands[k].scheduled_for_removal })
                 |-> OrderOf(dep.commands[
                        KeysInOrder({ k \in DOMAIN dep.commands :
                                        ~dep.commands[k].scheduled_for_removal })[i]]) ],
      nvars |-> Cardinality(DOMAIN dep.variables),
      varnames |-> VariablesInOrder(dep),
      varvals |-> [ i \in DOMAIN VariablesInOrder(dep) |->
                      dep.variables[VariablesInOrder(dep)[i]] ] ]

\* SheriffDeputy._make_orders_message
_make_orders_message(host, dep) ==
    LET order == KeysInOrder({ k \in DOMAIN dep.commands :
                                 ~dep.commands[k].scheduled_for_removal })
        removing == Cardinality({ k \in DOMAIN dep.commands :
                                    dep.commands[k].scheduled_for_removal })
    IN  [ host |-> host,
          ncmds |-> Cardinality(DOMAIN dep.commands) - removing,
          cmds |-> [ i \in DOMAIN order |-> OrderOf(dep.commands[order[i]]) ],
          nvars |-> Cardinality(DOMAIN dep.variables),
          varnames |-> VariablesInOrder(dep),
          varvals |-> [ i \in DOMAIN VariablesInOrder(dep) |->
                          dep.variables[VariablesInOrder(dep)[i]] ] ]

(***************************************************************************)
(* Sheriff                                                                 *)
(***************************************************************************)
\* the orders in which a python dict keyed by host name may be iterated
HostOrders ==
    { o \in [ 1 .. Cardinality(Hosts) -> Hosts ] :
        \A i, j \in DOMAIN o : i # j => o[i] # o[j] }

\* the keys of self.deputies in iteration order o
HostsInOrder(deps, o) == SelectSeq(o, LAMBDA h : h \in DOMAIN deps)

\* Sheriff._get_or_make_deputy
_get_or_make_deputy(deps, deputy_name) ==
    IF deputy_name \in DOMAIN deps THEN deps
    ELSE DictSet(deps, deputy_name, NewDeputy)

\* an emitted signal.  command-status-changed, and the command-added and
\* command-removed that come from a status-change tuple, carry the tuple's
\* old and new status; cmd is the command object as it is when the signal is
\* emitted; command-status-changed carries no deputy
Signal(sig, host, cmd, old, new) ==
    [ sig |-> sig, host |-> host, cmd |-> cmd, old |-> old, new |-> new ]

\* Sheriff._maybe_emit_status_change_signals (the poke of
\* _check_wait_action_status returns at once: no script is waiting)
_maybe_emit_status_change_signals(host, status_changes) ==
    LET differing == SelectSeq(status_changes, LAMBDA ch : ch.old # ch.new)
    IN  [ i \in DOMAIN differing |->
            LET ch == differing[i]
            IN  IF ch.old = None THEN
                    Signal("command-added", host, ch.cmd, ch.old, ch.new)
                ELSE IF ch.new = None THEN
                    Signal("command-removed", host, ch.cmd, ch.old, ch.new)
                ELSE
                    Signal("command-status-changed", None, ch.cmd, ch.old, ch.new) ]

\* is some deputy using sheriff id n
Collision(deps, n) == \E h \in DOMAIN deps : n \in DOMAIN deps[h].commands

\* a faulty __get_free_sheriff_id: the cursor is never wrapped
RECURSIVE __get_free_sheriff_id_NoWrap(_, _, _)
__get_free_sheriff_id_NoWrap(deps, next, probes) ==
    IF probes = 0 THEN
        [ raised |-> "RuntimeError", result |-> 0, next |-> next ]
    ELSE IF ~Collision(deps, next)
         THEN [ raised |-> None, result |-> next, next |-> next + 1 ]
         ELSE __get_free_sheriff_id_NoWrap(deps, next + 1, probes - 1)

\* Sheriff.__get_free_sheriff_id, with `probes` iterations of its loop left
RECURSIVE __get_free_sheriff_id(_, _, _)
__get_free_sheriff_id(deps, next, probes) ==
    IF probes = 0 THEN
        [ raised |-> "RuntimeError", result |-> 0, next |-> next ]
    ELSE
        LET advanced == IF next + 1 > SheriffIdWrap THEN 1 ELSE next + 1
        IN  IF ~Collision(deps, next)
            THEN [ raised |-> None, result |-> next, next |-> advanced ]
            ELSE __get_free_sheriff_id(deps, advanced, probes - 1)

\* a faulty send_orders: orders are published whatever the mode
send_orders_AnyMode(deps, observer) ==
    [ raised |-> None,
      published |-> << { _make_orders_message(h, deps[h]) : h \in DOMAIN deps } >> ]

\* Sheriff.send_orders.  One call publishes one message per deputy; the
\* messages of a call are kept as a set (one broadcast), the calls in order.
send_orders(deps, observer) ==
    IF observer THEN [ raised |-> "ValueError", published |-> << >> ]
    ELSE [ raised |-> None,
           published |-> << { _make_orders_message(h, deps[h]) : h \in DOMAIN deps } >> ]

\* self.emit(...) and one call of send_orders as effects of a handler
Emission(ev) == [ effect |-> "emit", what |-> ev ]
Publication(msgs) == [ effect |-> "publish", what |-> msgs ]

\* the effects of a handler that emits evs and then, in its last statement,
\* publishes pub, in the order of the statements
Effects(evs, pub) ==
    [ i \in DOMAIN evs |-> Emission(evs[i]) ] \o [ i \in DOMAIN pub |-> Publication(pub[i]) ]

\* what a handler leaves behind
Outcome(deps, next, evs, pub, exc) ==
    [ deputies |-> deps, next |-> next, events |-> evs, published |-> pub,
      raised |-> exc, effects |-> Effects(evs, pub) ]

\* what two calls, one after the other, leave behind
Then(first, second) ==
    [ deputies |-> second.deputies, next |-> second.next,
      events |-> first.events \o second.events,
      published |-> first.published \o second.published,
      raised |-> second.raised, effects |-> first.effects \o second.effects ]

\* what a handler that ends with self.send_orders() leaves behind
Sent(deps, next, evs, sent) ==
    Outcome(deps, next, evs, sent.published, sent.raised)

\* Sheriff.add_command
add_command(deps, next, observer, deputy_name, cmd_name, cmd_nickname, group, auto_respawn) ==
    IF observer THEN Outcome(deps, next, << >>, << >>, "ValueError")
    ELSE
        The({ The({
          IF free.raised # None THEN
              Outcome(made, free.next, << >>, << >>, free.raised)
          ELSE
              LET newcmd == [ NewCommand EXCEPT
                                !.name = cmd_name, !.nickname = cmd_nickname,
                                !.group = group, !.sheriff_id = free.result,
                                !.auto_respawn = auto_respawn ]
              IN  The({ The({
                    IF added.raised # None THEN
                        Outcome(made, free.next, << >>, << >>, added.raised)
                    ELSE
                        Sent(deps2, free.next,
                             << Signal("command-added", deputy_name, newcmd, None, None) >>,
                             send_orders(deps2, observer))
                    : deps2 \in { [ made EXCEPT ![deputy_name].commands = added.commands ] } })
                    : added \in { _add_command(made[deputy_name].commands, newcmd) } })
          : free \in { __get_free_sheriff_id(made, next, MaxProbes) } })
          : made \in { _get_or_make_deputy(deps, deputy_name) } })

\* Sheriff.get_command_deputy: the first deputy, in iteration order, whose
\* table has the command's sheriff_id as a key; None when there is none
get_command_deputy(deps, o, cmd) ==
    LET hs == SelectSeq(HostsInOrder(deps, o),
                        LAMBDA h : cmd.sheriff_id \in DOMAIN deps[h].commands)
    IN  IF hs = << >> THEN None ELSE hs[1]

\* a faulty body of start_command, restart_command and stop_command: the
\* orders are built before the command is changed
ChangeIntent_OrdersFirst(deps, next, observer, owner, id, changed) ==
    IF observer THEN Outcome(deps, next, << >>, << >>, "ValueError")
    ELSE
        The({
          Sent(deps2, next,
               _maybe_emit_status_change_signals(owner,
                   << [ cmd |-> changed, old |-> status(deps[owner].commands[id]),
                        new |-> status(changed) ] >>),
               send_orders(deps, observer))
          : deps2 \in { [ deps EXCEPT ![owner].commands[id] = changed ] } })

\* the body shared by start_command, restart_command and stop_command, on the
\* command object held by deputy `owner`; changed is the object after _start,
\* _restart or _stop.  get_command_deputy finds some deputy for a command that
\* is in a table, and command-status-changed does not carry it.
ChangeIntent(deps, next, observer, owner, id, changed) ==
    IF observer THEN Outcome(deps, next, << >>, << >>, "ValueError")
    ELSE
        The({
          Sent(deps2, next,
               _maybe_emit_status_change_signals(owner,
                   << [ cmd |-> changed, old |-> status(deps[owner].commands[id]),
                        new |-> status(changed) ] >>),
               send_orders(deps2, observer))
          : deps2 \in { [ deps EXCEPT ![owner].commands[id] = changed ] } })

\* Sheriff.start_command
start_command(deps, next, observer, owner, id) ==
    ChangeIntent(deps, next, observer, owner, id,
                 _start(deps[owner].commands[id]))

\* Sheriff.restart_command
restart_command(deps, next, observer, owner, id) ==
    ChangeIntent(deps, next, observer, owner, id,
                 _restart(deps[owner].commands[id]))

\* Sheriff.stop_command
stop_command(deps, next, observer, owner, id) ==
    ChangeIntent(deps, next, observer, owner, id,
                 _stop(deps[owner].commands[id]))

\* Sheriff.schedule_command_for_removal
schedule_command_for_removal(deps, next, observer, o, owner, id) ==
    IF observer THEN Outcome(deps, next, << >>, << >>, "ValueError")
    ELSE
        The({ The({
          IF done.raised # None THEN
              Outcome(deps, next, << >>, << >>, done.raised)
          ELSE
              The({ Sent(deps2, next,
                         _maybe_emit_status_change_signals(deputy, done.status_changes),
                         send_orders(deps2, observer))
                    : deps2 \in { [ deps EXCEPT ![deputy] = done.dep ] } })
          : done \in { _schedule_command_for_removal(deputy, deps[deputy], owner,
                                                     deps[owner].commands[id]) } })
          : deputy \in { get_command_deputy(deps, o, deps[owner].commands[id]) } })

\* Sheriff.move_command_to_deputy
move_command_to_deputy(deps, next, observer, o, owner, id, newdeputy) ==
    LET cmd == deps[owner].commands[id]
    IN  The({
          IF first.raised # None THEN first
          ELSE The({ Then(first, second)
                     : second \in
                         { add_command(first.deputies, first.next, observer, newdeputy,
                                       cmd.name, cmd.nickname, cmd.group,
                                       cmd.auto_respawn) } })
          : first \in { schedule_command_for_removal(deps, next, observer, o, owner, id) } })

\* the commands of every deputy, as (host, id) pairs in the order the nested
\* loops of load_config visit them
RECURSIVE AllCommands(_, _)
AllCommands(deps, hs) ==
    IF hs = << >> THEN << >>
    ELSE LET ks == KeysInOrder(DOMAIN deps[Head(hs)].commands)
         IN  [ i \in DOMAIN ks |-> << Head(hs), ks[i] >> ] \o AllCommands(deps, Tail(hs))

\* the first loop of load_config: schedule_command_for_removal on each target
RECURSIVE RemoveEach(_, _, _, _)
RemoveEach(acc, observer, o, targets) ==
    IF targets = << >> \/ acc.raised # None THEN acc
    ELSE The({ RemoveEach(Then(acc, r), observer, o, Tail(targets))
               : r \in { schedule_command_for_removal(acc.deputies, acc.next, observer, o,
                                                      Head(targets)[1], Head(targets)[2]) } })

\* the loop of load_config over the parsed commands
RECURSIVE AddEach(_, _, _)
AddEach(acc, observer, cmds) ==
    IF cmds = << >> \/ acc.raised # None THEN acc
    ELSE LET c == Head(cmds)
         IN  The({ AddEach(Then(acc, r), observer, Tail(cmds))
                   : r \in { add_command(acc.deputies, acc.next, observer, c.host,
                                         c.exec, c.nickname, c.group, c.auto_respawn) } })

\* Sheriff.load_config on a configuration whose commands are config_cmds, in
\* the order the groups are visited (scripts are not part of this model)
load_config(deps, next, observer, o, config_cmds) ==
    IF observer THEN Outcome(deps, next, << >>, << >>, "ValueError")
    ELSE
        LET removed == RemoveEach(Outcome(deps, next, << >>, << >>, None), observer, o,
                                  AllCommands(deps, HostsInOrder(deps, o)))
        IN  AddEach(removed, observer, config_cmds)

\* Sheriff.purge_useless_deputies
purge_useless_deputies(deps) ==
    [ h \in { x \in DOMAIN deps :
                ~( DOMAIN deps[x].commands = {}
                   \/ \A k \in DOMAIN deps[x].commands :
                        deps[x].commands[k].scheduled_for_removal ) }
      |-> deps[h] ]

\* the expression `self.is_observer` of _on_pmd_info names the method and
\* does not call it: a bound method is true
is_observer_truth == TRUE

\* the test of _on_pmd_info that an info message is ignored
IgnoredAsOld(t, utime) ==
    (t - utime) > MaxInfoAgeSec * UsecPerSec /\ ~is_observer_truth

\* Sheriff._on_pmd_info; t is timestamp_now()
_on_pmd_info(deps, next, t, dep_info) ==
    IF IgnoredAsOld(t, dep_info.utime) THEN
        [ out |-> Outcome(deps, next, << >>, << >>, None), applied |-> {} ]
    ELSE
        The({ The({
          [ applied |->
                UpdatedIds(SubSeq(dep_info.cmds, 1, Len(dep_info.cmds) - Len(upd.rest))),
            out |->
                IF upd.raised # None THEN
                    Outcome(deps2, next, << >>, << >>, upd.raised)
                ELSE
                    Outcome(deps2, next,
                        << Signal("deputy-info-received", dep_info.host, None, None, None) >>
                        \o _maybe_emit_status_change_signals(dep_info.host,
                                                             upd.status_changes),
                        << >>, None) ]
          : deps2 \in { [ made EXCEPT ![dep_info.host] = upd.dep ] } })
          : made \in { _get_or_make_deputy(deps, dep_info.host) },
            upd \in { _update_from_deputy_info(
                          _get_or_make_deputy(deps, dep_info.host)[dep_info.host],
                          dep_info, t) } })

\* a faulty _on_pmd_orders: orders are applied whatever the mode
_on_pmd_orders_AnyMode(deps, next, observer, dep_orders) ==
    The({ The({
      IF upd.raised # None THEN Outcome(deps2, next, << >>, << >>, upd.raised)
      ELSE Outcome(deps2, next,
                   _maybe_emit_status_change_signals(dep_orders.host,
                                                     upd.status_changes),
                   << >>, None)
      : deps2 \in { [ made EXCEPT ![dep_orders.host] = upd.dep ] } })
      : made \in { _get_or_make_deputy(deps, dep_orders.host) },
        upd \in { _update_from_deputy_orders(
                      _get_or_make_deputy(deps, dep_orders.host)[dep_orders.host],
                      dep_orders) } })

\* Sheriff._on_pmd_orders
_on_pmd_orders(deps, next, observer, dep_orders) ==
    IF ~observer THEN Outcome(deps, next, << >>, << >>, None)
    ELSE
        The({ The({
          IF upd.raised # None THEN Outcome(deps2, next, << >>, << >>, upd.raised)
          ELSE Outcome(deps2, next,
                       _maybe_emit_status_change_signals(dep_orders.host,
                                                         upd.status_changes),
                       << >>, None)
          : deps2 \in { [ made EXCEPT ![dep_orders.host] = upd.dep ] } })
          : made \in { _get_or_make_deputy(deps, dep_orders.host) },
            upd \in { _update_from_deputy_orders(
                          _get_or_make_deputy(deps, dep_orders.host)[dep_orders.host],
                          dep_orders) } })

(***************************************************************************)
(* Scripts                                                                 *)
(*                                                                         *)
(* A script is [name, actions]; an action has the fields of the action     *)
(* nodes of sheriff_config.py, a field its class does not have being None  *)
(* (0 for delay_ms) and never read.  A script, or an action, that may be   *)
(* None is a sequence: << >> for None, << s >> for s.  A command in a      *)
(* list of commands is << deputy name, key in the deputy's table >>.  The  *)
(* chain active_script_context, .subscript_context, ... is a sequence of   *)
(* [script, current_action], the active context first; << >> is None.      *)
(* `self` is the Sheriff: a record of its fields, with what the running    *)
(* handler emitted, published, raised and returned so far.                 *)
(***************************************************************************)
ScriptAction(action_type, ident_type, ident, wait_status, delay_ms, script_name) ==
    [ action_type |-> action_type, ident_type |-> ident_type, ident |-> ident,
      wait_status |-> wait_status, delay_ms |-> delay_ms,
      script_name |-> script_name ]

StartStopRestartActionNode(action_type, ident_type, ident, wait_status) ==
    ScriptAction(action_type, ident_type, ident, wait_status, 0, None)

WaitMsActionNode(delay_ms) == ScriptAction("wait_ms", None, None, None, delay_ms, None)

WaitStatusActionNode(ident_type, ident, wait_status) ==
    ScriptAction("wait_status", ident_type, ident, wait_status, 0, None)

RunScriptActionNode(script_name) ==
    ScriptAction("run_script", None, None, None, 0, script_name)

ScriptNode(name, actions) == [ name |-> name, actions |-> actions ]

\* ScriptExecutionContext.__init__
ScriptExecutionContext(script) == [ script |-> script, current_action |-> -1 ]

\* Sheriff.get_script
get_script(scr, name) ==
    IF \E i \in DOMAIN scr : scr[i].name = name
    THEN << scr[CHOOSE i \in DOMAIN scr :
                  /\ scr[i].name = name
                  /\ \A j \in 1 .. i - 1 : scr[j].name # name] >>
    ELSE << >>

\* Sheriff.get_commands_by_nickname
get_commands_by_nickname(deps, o, nickname) ==
    SelectSeq(AllCommands(deps, HostsInOrder(deps, o)),
              LAMBDA hk : deps[hk[1]].commands[hk[2]].nickname = nickname)

\* Sheriff.get_commands_by_group
get_commands_by_group(deps, o, group_name) ==
    SelectSeq(AllCommands(deps, HostsInOrder(deps, o)),
              LAMBDA hk : deps[hk[1]].commands[hk[2]].group = group_name)

\* Sheriff._get_action_commands
_get_action_commands(deps, o, ident_type, ident) ==
    IF ident_type = "cmd" THEN
        [ raised |-> None, cmds |-> get_commands_by_nickname(deps, o, ident) ]
    ELSE IF ident_type = "group" THEN
        [ raised |-> None, cmds |-> get_commands_by_group(deps, o, ident) ]
    ELSE IF ident_type = "everything" THEN
        [ raised |-> None, cmds |-> AllCommands(deps, HostsInOrder(deps, o)) ]
    ELSE [ raised |-> "ValueError", cmds |-> << >> ]

\* "->".join(names)
RECURSIVE JoinArrow(_)
JoinArrow(names) ==
    IF names = << >> THEN ""
    ELSE IF Len(names) = 1 THEN names[1]
    ELSE names[1] \o "->" \o JoinArrow(Tail(names))

\* a faulty prefixing: the messages of the called script are passed on as they are
Prefixed_Bare(parstr, sub_messages) == sub_messages

\* err_msgs.append("%s - %s" % (parstr, msg)) for each msg of sub_messages
Prefixed(parstr, sub_messages) ==
    [ i \in DOMAIN sub_messages |-> parstr \o " - " \o sub_messages[i] ]

\* Sheriff.check_script_for_errors: CheckActions is its loop over
\* script.actions, ActionErrors the body of the loop
RECURSIVE check_script_for_errors(_, _, _, _, _)
RECURSIVE CheckActions(_, _, _, _, _, _, _)
RECURSIVE ActionErrors(_, _, _, _, _, _, _)
\* a faulty check of one action: a run_script of a script that the table does
\* not hold is let through
ActionErrors_UnknownLetThrough(scr, deps, o, script, path_to_root, check_subscripts, action) ==
    IF action.action_type = "run_script" /\ get_script(scr, action.script_name) # << >>
         /\ check_subscripts
    THEN check_script_for_errors(scr, deps, o, get_script(scr, action.script_name)[1],
                                 Append(path_to_root, script))
    ELSE << >>

check_script_for_errors(scr, deps, o, script, path_to_root) ==
    IF path_to_root # << >> /\ \E i \in DOMAIN path_to_root : path_to_root[i] = script
    THEN << "Infinite loop: script " \o script.name \o " eventually calls itself" >>
         \o CheckActions(scr, deps, o, script, path_to_root, FALSE, script.actions)
    ELSE CheckActions(scr, deps, o, script, path_to_root, TRUE, script.actions)

CheckActions(scr, deps, o, script, path_to_root, check_subscripts, actions) ==
    IF actions = << >> THEN << >>
    ELSE ActionErrors(scr, deps, o, script, path_to_root, check_subscripts, Head(actions))
         \o CheckActions(scr, deps, o, script, path_to_root, check_subscripts,
                         Tail(actions))

ActionErrors(scr, deps, o, script, path_to_root, check_subscripts, action) ==
    IF action.action_type \in { "start", "stop", "restart", "wait_status" } THEN
        IF action.ident_type = "cmd" THEN
            IF get_commands_by_nickname(deps, o, action.ident) = << >>
            THEN << "No such command: " \o action.ident >> ELSE << >>
        ELSE IF action.ident_type = "group" THEN
            IF get_commands_by_group(deps, o, action.ident) = << >>
            THEN << "No such group: " \o action.ident >> ELSE << >>
        ELSE << >>
    ELSE IF action.action_type = "wait_ms" THEN
        IF action.delay_ms < 0
        THEN << "Wait times must be nonnegative" >> ELSE << >>
    ELSE IF action.action_type = "run_script" THEN
        IF get_script(scr, action.script_name) = << >> THEN
            << "Unknown script \"" \o action.script_name \o "\"" >>
        ELSE IF check_subscripts THEN
            Prefixed(
                JoinArrow([ i \in 1 .. Len(path_to_root) + 2 |->
                              IF i <= Len(path_to_root) THEN path_to_root[i].name
                              ELSE IF i = Len(path_to_root) + 1 THEN script.name
                              ELSE action.script_name ]),
                check_script_for_errors(scr, deps, o,
                                        get_script(scr, action.script_name)[1],
                                        Append(path_to_root, script)))
        ELSE << >>
    ELSE << "Unrecognized action " \o action.action_type >>

\* ScriptExecutionContext.get_next_action on the chain ctx; Advance is the
\* part after the subscript context is done with
RECURSIVE get_next_action(_, _)
RECURSIVE Advance(_, _)
\* a faulty advance: a run_script action is returned as it is
Advance_NoDescent(scr, context) ==
    IF context.current_action + 1 >= Len(context.script.actions) THEN
        [ raised |-> None, action |-> << >>,
          ctx |-> << [ context EXCEPT !.current_action = @ + 1 ] >> ]
    ELSE
        [ raised |-> None,
          action |-> << context.script.actions[context.current_action + 2] >>,
          ctx |-> << [ context EXCEPT !.current_action = @ + 1 ] >> ]

get_next_action(scr, ctx) ==
    IF Len(ctx) > 1 THEN
        The({ IF sub.action # << >> \/ sub.raised # None
              THEN [ sub EXCEPT !.ctx = << Head(ctx) >> \o sub.ctx ]
              ELSE Advance(scr, Head(ctx))
              : sub \in { get_next_action(scr, Tail(ctx)) } })
    ELSE Advance(scr, Head(ctx))

Advance(scr, context) ==
    IF context.current_action + 1 >= Len(context.script.actions) THEN
        [ raised |-> None, action |-> << >>,
          ctx |-> << [ context EXCEPT !.current_action = @ + 1 ] >> ]
    ELSE IF context.script.actions[context.current_action + 2].action_type
              = "run_script" THEN
        IF get_script(scr, context.script.actions[context.current_action + 2].script_name)
             = << >>
        THEN [ raised |-> "AssertionError", action |-> << >>,
               ctx |-> << [ context EXCEPT !.current_action = @ + 1 ] >> ]
        ELSE get_next_action(scr,
                 << [ context EXCEPT !.current_action = @ + 1 ],
                    ScriptExecutionContext(
                        get_script(scr, context.script.actions[
                                            context.current_action + 2].script_name)[1]) >>)
    ELSE
        [ raised |-> None,
          action |-> << context.script.actions[context.current_action + 2] >>,
          ctx |-> << [ context EXCEPT !.current_action = @ + 1 ] >> ]

\* `status not in acceptable_statuses`: for "running" acceptable_statuses is
\* the string RUNNING, of which no other status value is a substring; for
\* "stopped" it is the list [STOPPED_OK, STOPPED_ERROR]
Acceptable(waiting_for, st) ==
    IF waiting_for = "running" THEN st = RUNNING
    ELSE st \in { STOPPED_OK, STOPPED_ERROR }

\* Sheriff._check_wait_action_status; t is timestamp_now()
_check_wait_action_status(self, t) ==
    IF self.waiting_on_commands = << >> THEN self
    ELSE IF (t - self.last_script_action_time) * 1000 < 100 THEN self
    ELSE IF self.waiting_for_status \notin { "running", "stopped" } THEN
        [ self EXCEPT !.raised = "ValueError" ]
    ELSE IF \E i \in DOMAIN self.waiting_on_commands :
               ~Acceptable(self.waiting_for_status,
                           status(self.deputies[self.waiting_on_commands[i][1]]
                                      .commands[self.waiting_on_commands[i][2]]))
    THEN self
    ELSE [ self EXCEPT !.waiting_on_commands = << >>,
                       !.waiting_for_status = None,
                       !.timeouts = @ + 1 ]

\* the signals of evs up to the first command-status-changed
RECURSIVE BeforeStatusChanged(_)
BeforeStatusChanged(evs) ==
    IF evs = << >> \/ Head(evs).sig = "command-status-changed" THEN << >>
    ELSE << Head(evs) >> \o BeforeStatusChanged(Tail(evs))

\* Sheriff._maybe_emit_status_change_signals with its call of
\* _check_wait_action_status: evs are the signals of the tuples; the check
\* runs before each command-status-changed, and after the first run a
\* further run at the same time changes nothing
Emitted(self, evs, t) ==
    IF \A i \in DOMAIN evs : evs[i].sig # "command-status-changed" THEN
        [ self EXCEPT !.events = @ \o evs ]
    ELSE
        The({ IF checked.raised # None
              THEN [ checked EXCEPT !.events = @ \o BeforeStatusChanged(evs) ]
              ELSE [ checked EXCEPT !.events = @ \o evs ]
              : checked \in { _check_wait_action_status(self, t) } })

\* Sheriff.start_command / stop_command / restart_command as the executor
\* calls them; changed is the command after _start / _stop / _restart
Intent(self, hk, changed, t) ==
    IF self._is_observer THEN [ self EXCEPT !.raised = "ValueError" ]
    ELSE
        The({ IF emitted.raised # None THEN emitted
              ELSE [ emitted EXCEPT
                       !.published = @ \o send_orders(emitted.deputies, FALSE).published ]
              : emitted \in {
                  Emitted([ self EXCEPT !.deputies[hk[1]].commands[hk[2]] = changed ],
                          _maybe_emit_status_change_signals(hk[1],
                              << [ cmd |-> changed,
                                   old |-> status(self.deputies[hk[1]].commands[hk[2]]),
                                   new |-> status(changed) ] >>),
                          t) } })

\* the loops `for cmd in cmds: self.start_command(cmd)` (and stop, restart)
RECURSIVE IntentLoop(_, _, _, _)
IntentLoop(self, action_type, cmds, t) ==
    IF cmds = << >> \/ self.raised # None THEN self
    ELSE IntentLoop(
             Intent(self, Head(cmds),
                    IF action_type = "start"
                    THEN _start(self.deputies[Head(cmds)[1]].commands[Head(cmds)[2]])
                    ELSE IF action_type = "stop"
                    THEN _stop(self.deputies[Head(cmds)[1]].commands[Head(cmds)[2]])
                    ELSE _restart(self.deputies[Head(cmds)[1]].commands[Head(cmds)[2]]),
                    t),
             action_type, Tail(cmds), t)

\* a faulty finish: the script is dropped and no signal is emitted
_finish_script_execution_Silent(self) ==
    [ self EXCEPT !.active_script_context = << >>,
                  !.waiting_on_commands = << >>,
                  !.waiting_for_status = None ]

\* Sheriff._finish_script_execution
_finish_script_execution(self) ==
    [ self EXCEPT !.active_script_context = << >>,
                  !.waiting_on_commands = << >>,
                  !.waiting_for_status = None,
                  !.events = @ \o << Signal("script-finished", None, None,
                                            self.active_script_context[1].script.name,
                                            None) >> ]

\* Sheriff._execute_next_script_action from `cmds = ...` on; t and t2 are the
\* values of timestamp_now() for last_script_action_time and in
\* _check_wait_action_status
Dispatch(self, o, action, t, t2) ==
    The({ IF found.raised # None THEN [ self EXCEPT !.raised = found.raised ]
          ELSE The({
                 IF looped.raised # None THEN looped
                 ELSE IF action.wait_status \notin { None, "" } THEN
                     _check_wait_action_status(
                         [ looped EXCEPT !.waiting_on_commands = found.cmds,
                                         !.waiting_for_status = action.wait_status ],
                         t2)
                 ELSE [ looped EXCEPT !.timeouts = @ + 1 ]
                 : looped \in {
                     IF action.action_type \in { "start", "stop", "restart" }
                     THEN IntentLoop([ self EXCEPT !.last_script_action_time = t ],
                                     action.action_type, found.cmds, t)
                     ELSE [ self EXCEPT !.last_script_action_time = t ] } })
          : found \in { _get_action_commands(self.deputies, o, action.ident_type,
                                             action.ident) } })

\* Sheriff._execute_next_script_action
_execute_next_script_action(self, o, t, t2) ==
    IF self.active_script_context = << >> THEN self
    ELSE
        The({ IF got.raised # None THEN
                  [ self EXCEPT !.active_script_context = got.ctx,
                                !.raised = got.raised ]
              ELSE IF got.action = << >> THEN
                  _finish_script_execution(
                      [ self EXCEPT !.active_script_context = got.ctx ])
              ELSE IF got.action[1].action_type = "wait_ms" THEN
                  [ self EXCEPT
                      !.active_script_context = got.ctx,
                      !.events = @ \o << Signal("script-action-executing", None, None,
                                                self.active_script_context[1].script.name,
                                                got.action[1]) >>,
                      !.timeouts = @ + 1 ]
              ELSE
                  Dispatch([ self EXCEPT
                               !.active_script_context = got.ctx,
                               !.events = @ \o
                                  << Signal("script-action-executing", None, None,
                                            self.active_script_context[1].script.name,
                                            got.action[1]) >> ],
                           o, got.action[1], t, t2)
              : got \in { get_next_action(self.scripts, self.active_script_context) } })

\* Sheriff.abort_script
abort_script(self) == _finish_script_execution(self)

\* a faulty execute_script: the active script is aborted after the validation,
\* when the new script is started
execute_script_AbortsLate(self, o, script, t, t2) ==
    The({ IF errors # << >> THEN [ self EXCEPT !.returned = errors ]
          ELSE _execute_next_script_action(
                   [ ( IF self.active_script_context # << >>
                       THEN abort_script(self) ELSE self )
                     EXCEPT
                       !.active_script_context = << ScriptExecutionContext(script) >>,
                       !.events = @ \o << Signal("script-started", None, None,
                                                 script.name, None) >> ],
                   o, t, t2)
          : errors \in { check_script_for_errors(self.scripts, self.deputies,
                                                 o, script, << >>) } })

\* Sheriff.execute_script
execute_script(self, o, script, t, t2) ==
    The({ The({
            IF errors # << >> THEN [ aborted EXCEPT !.returned = errors ]
            ELSE _execute_next_script_action(
                     [ aborted EXCEPT
                         !.active_script_context = << ScriptExecutionContext(script) >>,
                         !.events = @ \o << Signal("script-started", None, None,
                                                   script.name, None) >> ],
                     o, t, t2)
            : errors \in { check_script_for_errors(aborted.scripts, aborted.deputies,
                                                   o, script, << >>) } })
          : aborted \in { IF self.active_script_context # << >>
                          THEN abort_script(self) ELSE self } })

\* Sheriff.add_script
add_script(self, script) ==
    IF get_script(self.scripts, script.name) # << >>
    THEN [ self EXCEPT !.raised = "ValueError" ]
    ELSE [ self EXCEPT !.scripts = Append(@, script),
                       !.events = @ \o << Signal("script-added", None, None,
                                                 script.name, None) >> ]

\* Sheriff.remove_script
remove_script(self, script) ==
    IF self.active_script_context # << >> THEN
        [ self EXCEPT !.raised = "RuntimeError" ]
    ELSE IF \E i \in DOMAIN self.scripts : self.scripts[i] = script THEN
        [ self EXCEPT !.scripts = SelectSeq(@, LAMBDA s : s # script),
                      !.events = @ \o << Signal("script-removed", None, None,
                                                script.name, None) >> ]
    ELSE [ self EXCEPT !.raised = "ValueError" ]

\* Sheriff._on_pmd_info with the check _maybe_emit_status_change_signals makes
OnInfo(self, dep_info, t) ==
    The({ IF r.out.raised # None
          THEN [ self EXCEPT !.deputies = r.out.deputies, !.raised = r.out.raised ]
          ELSE Emitted([ self EXCEPT !.deputies = r.out.deputies ], r.out.events, t)
          : r \in { _on_pmd_info(self.deputies, self._next_sheriff_id, t, dep_info) } })

(***************************************************************************)
(* Inputs                                                                  *)
(***************************************************************************)
SeqsUpTo(S, n) == UNION { [ 1 .. k -> S ] : k \in 0 .. n }

\* a cmd_info record of an info_t
CmdInfo(i, ob) ==
    [ sheriff_id |-> i, pid |-> ob[1], exit_code |-> ob[2], actual_runid |-> ob[3],
      auto_respawn |-> FALSE, name |-> "a", nickname |-> "a", group |-> "a" ]

\* the cmd_info records inbound messages carry; of one that reports
\* sheriff_id 0 no other field is ever read
CmdInfos ==
    { CmdInfo(0, <<0, 0, 0>>) } \cup { CmdInfo(i, ob) : i \in MsgIds, ob \in MsgObs }

\* a sheriff_cmd_t record of an orders_t
CmdOrder(i, in) ==
    [ sheriff_id |-> i, desired_runid |-> in[1], force_quit |-> in[2],
      auto_respawn |-> TRUE, name |-> "b", nickname |-> "b", group |-> "b" ]

\* the sheriff_cmd_t records inbound orders carry
CmdOrders ==
    { CmdOrder(0, <<0, FALSE>>) } \cup
    { CmdOrder(i, in) : i \in MsgIds, in \in MsgIntents }

\* utime of an outdated info message: 31 seconds old
OldUtime(t) == t - (MaxInfoAgeSec + 1) * UsecPerSec

\* the commands of a parsed configuration
ConfigCmds ==
    { [ host |-> h, exec |-> "a", nickname |-> "a", group |-> "a",
        auto_respawn |-> a ] : h \in Hosts, a \in BOOLEAN }

\* the command objects the operator can hold: (host, id) of a table entry
Held == UNION { { << h, k >> : k \in DOMAIN deputies[h].commands } :
                h \in DOMAIN deputies }

Idle == [ fn |-> None ]

\* the script fields of Sheriff.__init__; no timeout is pending
InitExecutor ==
    /\ scripts = << >>
    /\ active_script_context = << >>
    /\ waiting_on_commands = << >>
    /\ waiting_for_status = None
    /\ last_script_action_time = 0
    /\ timeouts = 0
    /\ returned = << >>

(***************************************************************************)
(* Actions: one per handler                                                *)
(***************************************************************************)
Init ==
    /\ deputies = [ h \in {} |-> NewDeputy ]
    /\ _is_observer = FALSE
    /\ _next_sheriff_id = 1
    /\ now = StartTime
    /\ op = [ name |-> "__init__", host |-> None, ids |-> {} ]
    /\ raised = None
    /\ events = << >>
    /\ published = << >>
    /\ inbound = 0
    /\ steps = 0
    /\ InitExecutor
    /\ probe = Idle

\* the state a handler leaves, from its outcome
Leave(name, host, ids, outcome) ==
    \E out \in { outcome } :
    /\ deputies' = out.deputies
    /\ _next_sheriff_id' = out.next
    /\ events' = out.events
    /\ published' = out.published
    /\ raised' = out.raised
    /\ op' = [ name |-> name, host |-> host, ids |-> ids ]
    /\ steps' = steps + 1

\* a PMD_INFO message sent just now arrives
OnPmdInfo ==
    /\ steps < MaxSteps
    /\ inbound < MaxInbound
    /\ \E h \in Hosts, cmds \in SeqsUpTo(CmdInfos, MaxInfoLen) :
         \E r \in { _on_pmd_info(deputies, _next_sheriff_id, now,
                                  [ utime |-> now, host |-> h, cmds |-> cmds ]) } :
             Leave("_on_pmd_info", h, r.applied, r.out)
    /\ inbound' = inbound + 1
    /\ UNCHANGED << _is_observer, now, executor, probe >>

\* a PMD_INFO message sent 31 seconds ago arrives
OnOldPmdInfo ==
    /\ steps < MaxSteps
    /\ inbound < MaxInbound
    /\ \E h \in Hosts, cmds \in SeqsUpTo(CmdInfos, MaxOldInfoLen) :
         \E r \in { _on_pmd_info(deputies, _next_sheriff_id, now,
                                  [ utime |-> OldUtime(now), host |-> h, cmds |-> cmds ]) } :
             Leave("_on_pmd_info:old", h, r.applied, r.out)
    /\ inbound' = inbound + 1
    /\ UNCHANGED << _is_observer, now, executor, probe >>

\* a PMD_ORDERS message arrives
OnPmdOrders ==
    /\ steps < MaxSteps
    /\ inbound < MaxInbound
    /\ \E h \in Hosts, cmds \in SeqsUpTo(CmdOrders, MaxOrdersLen) :
         Leave("_on_pmd_orders", h, UpdatedIds(cmds),
               _on_pmd_orders(deputies, _next_sheriff_id, _is_observer,
                              [ host |-> h, cmds |-> cmds ]))
    /\ inbound' = inbound + 1
    /\ UNCHANGED << _is_observer, now, executor, probe >>

\* the periodic timer of the main program calls send_orders
PeriodicSendOrders ==
    /\ steps < MaxSteps
    /\ Leave("send_orders", None, {},
             Sent(deputies, _next_sheriff_id, << >>,
                  send_orders(deputies, _is_observer)))
    /\ UNCHANGED << _is_observer, now, executor, inbound, probe >>

SetObserver ==
    /\ steps < MaxSteps
    /\ \E b \in BOOLEAN : _is_observer' = b
    /\ op' = [ name |-> "set_observer", host |-> None, ids |-> {} ]
    /\ raised' = None /\ events' = << >> /\ published' = << >>
    /\ steps' = steps + 1
    /\ UNCHANGED << deputies, _next_sheriff_id, now, executor, inbound, probe >>

AddCommand ==
    /\ steps < MaxSteps
    /\ _next_sheriff_id <= MaxAdds
    /\ \E h \in Hosts, a \in BOOLEAN :
         Leave("add_command", h, {},
               add_command(deputies, _next_sheriff_id, _is_observer, h,
                           "a", "a", "a", a))
    /\ UNCHANGED << _is_observer, now, executor, inbound, probe >>

StartCommand ==
    /\ steps < MaxSteps
    /\ \E hk \in Held :
         /\ deputies[hk[1]].commands[hk[2]].desired_runid < MaxRunid
         /\ Leave("start_command", hk[1], {hk[2]},
                  start_command(deputies, _next_sheriff_id, _is_observer,
                                hk[1], hk[2]))
    /\ UNCHANGED << _is_observer, now, executor, inbound, probe >>

RestartCommand ==
    /\ steps < MaxSteps
    /\ \E hk \in Held :
         /\ deputies[hk[1]].commands[hk[2]].desired_runid < MaxRunid
         /\ Leave("restart_command", hk[1], {hk[2]},
                  restart_command(deputies, _next_sheriff_id, _is_observer,
                                  hk[1], hk[2]))
    /\ UNCHANGED << _is_observer, now, executor, inbound, probe >>

StopCommand ==
    /\ steps < MaxSteps
    /\ \E hk \in Held :
         Leave("stop_command", hk[1], {hk[2]},
               stop_command(deputies, _next_sheriff_id, _is_observer,
                            hk[1], hk[2]))
    /\ UNCHANGED << _is_observer, now, executor, inbound, probe >>

\* Sheriff.set_command_name
SetCommandName ==
    /\ steps < MaxSteps
    /\ \E hk \in Held, n \in Strs :
         Leave("set_command_name", hk[1], {hk[2]},
               Outcome([ deputies EXCEPT ![hk[1]].commands[hk[2]].name = n ],
                       _next_sheriff_id, << >>, << >>, None))
    /\ UNCHANGED << _is_observer, now, executor, inbound, probe >>

\* Sheriff.set_command_nickname
SetCommandNickname ==
    /\ steps < MaxSteps
    /\ \E hk \in Held, n \in Strs :
         Leave("set_command_nickname", hk[1], {hk[2]},
               Outcome([ deputies EXCEPT ![hk[1]].commands[hk[2]].nickname = n ],
                       _next_sheriff_id, << >>, << >>, None))
    /\ UNCHANGED << _is_observer, now, executor, inbound, probe >>

\* Sheriff.set_auto_respawn
SetAutoRespawn ==
    /\ steps < MaxSteps
    /\ \E hk \in Held, a \in BOOLEAN :
         Leave("set_auto_respawn", hk[1], {hk[2]},
               Outcome([ deputies EXCEPT ![hk[1]].commands[hk[2]].auto_respawn = a ],
                       _next_sheriff_id, << >>, << >>, None))
    /\ UNCHANGED << _is_observer, now, executor, inbound, probe >>

\* Sheriff.set_command_group
SetCommandGroup ==
    /\ steps < MaxSteps
    /\ \E hk \in Held, g \in Strs :
         LET cmd == deputies[hk[1]].commands[hk[2]]
             regrouped == [ cmd EXCEPT !.group = g ]
         IN  Leave("set_command_group", hk[1], {hk[2]},
                   IF _is_observer THEN
                       Outcome(deputies, _next_sheriff_id, << >>, << >>, "ValueError")
                   ELSE IF cmd.group # g THEN
                       Outcome([ deputies EXCEPT ![hk[1]].commands[hk[2]] = regrouped ],
                               _next_sheriff_id,
                               << Signal("command-group-changed", None, regrouped,
                                         None, None) >>,
                               << >>, None)
                   ELSE Outcome(deputies, _next_sheriff_id, << >>, << >>, None))
    /\ UNCHANGED << _is_observer, now, executor, inbound, probe >>

ScheduleCommandForRemoval ==
    /\ steps < MaxSteps
    /\ \E o \in HostOrders, hk \in Held :
         Leave("schedule_command_for_removal", hk[1], {hk[2]},
               schedule_command_for_removal(deputies, _next_sheriff_id,
                                            _is_observer, o, hk[1], hk[2]))
    /\ UNCHANGED << _is_observer, now, executor, inbound, probe >>

MoveCommandToDeputy ==
    /\ steps < MaxSteps
    /\ _next_sheriff_id <= MaxAdds
    /\ \E o \in HostOrders, hk \in Held, newdeputy \in DOMAIN deputies :
         Leave("move_command_to_deputy", hk[1], {hk[2]},
               move_command_to_deputy(deputies, _next_sheriff_id, _is_observer,
                                      o, hk[1], hk[2], newdeputy))
    /\ UNCHANGED << _is_observer, now, executor, inbound, probe >>

LoadConfig ==
    /\ steps < MaxSteps
    /\ \E o \in HostOrders, cfg \in SeqsUpTo(ConfigCmds, MaxCfgCmds) :
         /\ _next_sheriff_id + Len(cfg) <= MaxAdds + 1
         /\ Leave("load_config", None, {},
                  load_config(deputies, _next_sheriff_id, _is_observer, o, cfg))
    /\ UNCHANGED << _is_observer, now, executor, inbound, probe >>

PurgeUselessDeputies ==
    /\ steps < MaxSteps
    /\ Leave("purge_useless_deputies", None, {},
             Outcome(purge_useless_deputies(deputies), _next_sheriff_id,
                     << >>, << >>, None))
    /\ UNCHANGED << _is_observer, now, executor, inbound, probe >>

Next ==
    \/ OnPmdInfo
    \/ OnOldPmdInfo
    \/ OnPmdOrders
    \/ PeriodicSendOrders
    \/ SetObserver
    \/ AddCommand
    \/ StartCommand
    \/ RestartCommand
    \/ StopCommand
    \/ SetCommandName
    \/ SetCommandNickname
    \/ SetAutoRespawn
    \/ SetCommandGroup
    \/ ScheduleCommandForRemoval
    \/ MoveCommandToDeputy
    \/ LoadConfig
    \/ PurgeUselessDeputies

Spec == Init /\ [][Next]_vars

(***************************************************************************)
(* status() as a pure function: the inputs are drawn in the initial state  *)
(* and one action applies it.                                              *)
(***************************************************************************)
\* wait statuses: exit 0, killed by SIGTERM / SIGINT / SIGKILL / SIGSEGV,
\* killed by SIGTERM with a core dump flag, exit status 1
StatusExitCodes == { 0, SIGTERM, SIGINT, SIGKILL, 11, 128 + SIGTERM, 256 }

StatusInputs ==
    { [ NewCommand EXCEPT !.sheriff_id = 1, !.desired_runid = d, !.actual_runid = a,
                          !.force_quit = f, !.pid = p, !.exit_code = e,
                          !.scheduled_for_removal = r ] :
      d \in 0 .. MaxRunid, a \in 0 .. MaxRunid, f \in BOOLEAN, p \in { -1, 0, 7 },
      e \in StatusExitCodes, r \in BOOLEAN }

InitStatus ==
    /\ deputies = [ h \in {} |-> NewDeputy ]
    /\ _is_observer = FALSE
    /\ _next_sheriff_id = 1
    /\ now = StartTime
    /\ op = [ name |-> "__init__", host |-> None, ids |-> {} ]
    /\ raised = None
    /\ events = << >>
    /\ published = << >>
    /\ inbound = 0
    /\ steps = 0
    /\ InitExecutor
    /\ probe \in { [ fn |-> "status", cmd |-> c, result |-> None ] : c \in StatusInputs }

CallStatus ==
    /\ probe.fn = "status"
    /\ probe.result = None
    /\ probe' = [ probe EXCEPT !.result = statusBranch(probe.cmd) ]
    /\ UNCHANGED << deputies, _is_observer, _next_sheriff_id, now, executor, op, raised,
                    events, published, inbound, steps >>

SpecStatus == InitStatus /\ [][CallStatus]_vars

(***************************************************************************)
(* The life cycle of one command on one deputy: add, start, stop, restart  *)
(* and the deputy's reports about it.  probe follows the walk              *)
(* add(auto_respawn = false); start; report running; report exited         *)
(* (stage) and collects the new status of every command-status-changed     *)
(* emitted during it (seen).                                               *)
(***************************************************************************)
LifeHost == "h1"

\* what the deputy reports about the command: << pid, exit_code, actual_runid >>
LifeObs ==
    { << 7, 0, r >> : r \in 0 .. MaxRunid }
    \cup { << 0, e, r >> : e \in StatusExitCodes, r \in 0 .. MaxRunid }

\* the new statuses of the command-status-changed signals in evs
RECURSIVE StatusesSeen(_)
StatusesSeen(evs) ==
    IF evs = << >> THEN << >>
    ELSE ( IF Head(evs).sig = "command-status-changed"
           THEN << Head(evs).new >> ELSE << >> )
         \o StatusesSeen(Tail(evs))

\* the walk goes on (to stage `next`) if this step is its next step, and is
\* left for good otherwise
Walked(onwalk, next) ==
    IF onwalk
    THEN [ fn |-> "lifecycle", stage |-> next,
           seen |-> probe.seen \o StatusesSeen(events') ]
    ELSE [ fn |-> "lifecycle", stage |-> -1, seen |-> << >> ]

InitLife ==
    /\ deputies = [ h \in {} |-> NewDeputy ]
    /\ _is_observer = FALSE
    /\ _next_sheriff_id = 1
    /\ now = StartTime
    /\ op = [ name |-> "__init__", host |-> None, ids |-> {} ]
    /\ raised = None
    /\ events = << >>
    /\ published = << >>
    /\ inbound = 0
    /\ steps = 0
    /\ InitExecutor
    /\ probe = [ fn |-> "lifecycle", stage |-> 0, seen |-> << >> ]

LifeAddCommand ==
    /\ steps < MaxLifeSteps
    /\ Held = {}
    /\ \E a \in BOOLEAN :
         /\ Leave("add_command", LifeHost, {},
                  add_command(deputies, _next_sheriff_id, _is_observer, LifeHost,
                              "a", "a", "a", a))
         /\ probe' = Walked(probe.stage = 0 /\ ~a, 1)
    /\ UNCHANGED << _is_observer, now, executor, inbound >>

LifeStartCommand ==
    /\ steps < MaxLifeSteps
    /\ \E hk \in Held :
         /\ deputies[hk[1]].commands[hk[2]].desired_runid < MaxRunid
         /\ Leave("start_command", hk[1], {hk[2]},
                  start_command(deputies, _next_sheriff_id, _is_observer,
                                hk[1], hk[2]))
    /\ probe' = Walked(probe.stage = 1, 2)
    /\ UNCHANGED << _is_observer, now, executor, inbound >>

LifeRestartCommand ==
    /\ steps < MaxLifeSteps
    /\ \E hk \in Held :
         /\ deputies[hk[1]].commands[hk[2]].desired_runid < MaxRunid
         /\ Leave("restart_command", hk[1], {hk[2]},
                  restart_command(deputies, _next_sheriff_id, _is_observer,
                                  hk[1], hk[2]))
    /\ probe' = Walked(FALSE, -1)
    /\ UNCHANGED << _is_observer, now, executor, inbound >>

LifeStopCommand ==
    /\ steps < MaxLifeSteps
    /\ \E hk \in Held :
         Leave("stop_command", hk[1], {hk[2]},
               stop_command(deputies, _next_sheriff_id, _is_observer,
                            hk[1], hk[2]))
    /\ probe' = Walked(probe.stage = 3, 5)
    /\ UNCHANGED << _is_observer, now, executor, inbound >>

\* the deputy reports the command (sheriff_id 1, the first id allocated)
LifeInfo ==
    /\ steps < MaxLifeSteps
    /\ \E ob \in LifeObs :
         /\ \E r \in { _on_pmd_info(deputies, _next_sheriff_id, now,
                                    [ utime |-> now, host |-> LifeHost,
                                      cmds |-> << CmdInfo(1, ob) >> ]) } :
              Leave("_on_pmd_info", LifeHost, r.applied, r.out)
         /\ probe' =
              IF probe.stage = 2
              THEN Walked(ob[1] > 0
                          /\ ob[3] = deputies[LifeHost].commands[1].desired_runid, 3)
              ELSE IF probe.stage = 3
              THEN Walked(ob[1] = 0 /\ ob[2] = 0
                          /\ ob[3] = deputies[LifeHost].commands[1].desired_runid, 4)
              ELSE Walked(probe.stage = 5 /\ ob[1] = 0
                          /\ ob[3] = deputies[LifeHost].commands[1].desired_runid, 6)
    /\ inbound' = inbound + 1
    /\ UNCHANGED << _is_observer, now, executor >>

NextLife ==
    \/ LifeAddCommand
    \/ LifeStartCommand
    \/ LifeRestartCommand
    \/ LifeStopCommand
    \/ LifeInfo

SpecLife == InitLife /\ [][NextLife]_vars


(***************************************************************************)
(* The allocation of sheriff ids as a function of the tables and of the    *)
(* cursor: both are drawn in the initial state, and one action calls       *)
(* add_command, the other __get_free_sheriff_id with a drawn number of     *)
(* loop iterations.                                                        *)
(***************************************************************************)
\* the sheriff ids in use: the low end and the high end of the id range
AllocIds == { 1, 2, 3, SheriffIdWrap - 1, SheriffIdWrap }

\* a deputy holding the ids of S
DeputyHolding(S) ==
    [ NewDeputy EXCEPT
        !.commands = [ k \in S |-> [ NewCommand EXCEPT !.sheriff_id = k ] ] ]

InitAlloc ==
    /\ \E S1 \in SUBSET AllocIds, S2 \in SUBSET AllocIds :
         deputies = [ h \in { "h1", "h2" } |->
                        IF h = "h1" THEN DeputyHolding(S1) ELSE DeputyHolding(S2) ]
    /\ _is_observer = FALSE
    /\ _next_sheriff_id \in AllocIds
    /\ now = StartTime
    /\ op = [ name |-> "__init__", host |-> None, ids |-> {} ]
    /\ raised = None
    /\ events = << >>
    /\ published = << >>
    /\ inbound = 0
    /\ steps = 0
    /\ InitExecutor
    /\ probe \in { [ fn |-> "__get_free_sheriff_id", probes |-> n,
                     raised |-> None, result |-> 0 ] : n \in 1 .. MaxAllocProbes }

\* Sheriff.add_command on the drawn tables; op.ids keeps the cursor the call
\* started from
AllocAddCommand ==
    /\ steps = 0
    /\ \E h \in { "h1", "h2" } :
         Leave("add_command", h, { _next_sheriff_id },
               add_command(deputies, _next_sheriff_id, _is_observer, h,
                           "a", "a", "a", FALSE))
    /\ UNCHANGED << _is_observer, now, executor, inbound, probe >>

\* Sheriff.__get_free_sheriff_id on the drawn tables, its loop cut down to
\* probe.probes iterations
AllocGetFree ==
    /\ steps = 0
    /\ \E r \in { __get_free_sheriff_id(deputies, _next_sheriff_id, probe.probes) } :
         /\ probe' = [ probe EXCEPT !.raised = r.raised, !.result = r.result ]
         /\ _next_sheriff_id' = r.next
         /\ raised' = r.raised
    /\ op' = [ name |-> "__get_free_sheriff_id", host |-> None, ids |-> {} ]
    /\ steps' = steps + 1
    /\ UNCHANGED << deputies, _is_observer, now, executor, events, published, inbound >>

NextAlloc ==
    \/ AllocAddCommand
    \/ AllocGetFree

SpecAlloc == InitAlloc /\ [][NextAlloc]_vars


(***************************************************************************)
(* The orders message as a function of the deputy: the deputy's commands   *)
(* are drawn in the initial state, its variables are set and removed by    *)
(* the deputy's own methods, and send_orders builds the message.           *)
(***************************************************************************)
\* the commands of the deputy: any of the ids 1 and 2, each with any intent
OrdersCommands ==
    UNION { [ S -> { [ NewCommand EXCEPT !.name = "a", !.nickname = "a",
                                         !.group = "a", !.desired_runid = d,
                                         !.force_quit = f,
                                         !.scheduled_for_removal = r ] :
                       d \in 0 .. 1, f \in BOOLEAN, r \in BOOLEAN } ] :
            S \in SUBSET { 1, 2 } }

InitOrders ==
    /\ \E t \in OrdersCommands :
         deputies = [ h \in { LifeHost } |->
                        [ NewDeputy EXCEPT
                            !.commands = [ k \in DOMAIN t |->
                                             [ t[k] EXCEPT !.sheriff_id = k ] ] ] ]
    /\ _is_observer = FALSE
    /\ _next_sheriff_id = 1
    /\ now = StartTime
    /\ op = [ name |-> "__init__", host |-> None, ids |-> {} ]
    /\ raised = None
    /\ events = << >>
    /\ published = << >>
    /\ inbound = 0
    /\ steps = 0
    /\ InitExecutor
    /\ probe = Idle

\* SheriffDeputy.set_variable
OrdersSetVariable ==
    /\ steps < MaxVarSteps
    /\ \E n \in { "x", "y" }, val \in { "1", "2" } :
         deputies' = [ deputies EXCEPT
                         ![LifeHost] = set_variable(deputies[LifeHost], n, val) ]
    /\ op' = [ name |-> "set_variable", host |-> LifeHost, ids |-> {} ]
    /\ steps' = steps + 1
    /\ events' = << >> /\ published' = << >> /\ raised' = None
    /\ UNCHANGED << _is_observer, _next_sheriff_id, now, executor, inbound, probe >>

\* SheriffDeputy.remove_variable
OrdersRemoveVariable ==
    /\ steps < MaxVarSteps
    /\ \E n \in { "x", "y" } :
         deputies' = [ deputies EXCEPT
                         ![LifeHost] = remove_variable(deputies[LifeHost], n) ]
    /\ op' = [ name |-> "remove_variable", host |-> LifeHost, ids |-> {} ]
    /\ steps' = steps + 1
    /\ events' = << >> /\ published' = << >> /\ raised' = None
    /\ UNCHANGED << _is_observer, _next_sheriff_id, now, executor, inbound, probe >>

\* Sheriff.send_orders
OrdersSend ==
    /\ steps < MaxVarSteps
    /\ \E sent \in { send_orders(deputies, _is_observer) } :
         Leave("send_orders", None, {},
               Outcome(deputies, _next_sheriff_id, << >>, sent.published, sent.raised))
    /\ UNCHANGED << _is_observer, now, executor, inbound, probe >>

NextOrders ==
    \/ OrdersSetVariable
    \/ OrdersRemoveVariable
    \/ OrdersSend

SpecOrders == InitOrders /\ [][NextOrders]_vars

(***************************************************************************)
(* The script executor: a sheriff with one deputy that holds one command   *)
(* (nickname "a", group "a", as add_command left it) and with the scripts  *)
(* of ScriptPool added.  Scripts are executed and aborted by the user,     *)
(* the pending timeouts run _execute_next_script_action, the deputy        *)
(* reports the command, the observer flag is set, and the clock advances.  *)
(***************************************************************************)
ScriptPool ==
    << ScriptNode("F", << StartStopRestartActionNode("start", "cmd", "a", "running"),
                          WaitMsActionNode(50) >>),
       ScriptNode("S", << WaitStatusActionNode("cmd", "a", "stopped"),
                          StartStopRestartActionNode("restart", "everything", None, None) >>),
       ScriptNode("A", << RunScriptActionNode("B") >>),
       ScriptNode("B", << RunScriptActionNode("A") >>),
       ScriptNode("E", << StartStopRestartActionNode("stop", "cmd", "zz", None),
                          WaitMsActionNode(-1) >>),
       ScriptNode("X", << WaitStatusActionNode("host", "a", "running") >>),
       ScriptNode("C", << RunScriptActionNode("F"),
                          StartStopRestartActionNode("stop", "group", "a", "stopped") >>) >>

\* the scripts of the pool the user removes and adds again: E and X
ScriptEdits == { 5, 6 }

\* the Sheriff as the handlers find it
Self ==
    [ deputies |-> deputies, _is_observer |-> _is_observer,
      _next_sheriff_id |-> _next_sheriff_id, scripts |-> scripts,
      active_script_context |-> active_script_context,
      waiting_on_commands |-> waiting_on_commands,
      waiting_for_status |-> waiting_for_status,
      last_script_action_time |-> last_script_action_time,
      timeouts |-> timeouts,
      events |-> << >>, published |-> << >>, raised |-> None, returned |-> << >> ]

\* the state a handler leaves, from the Sheriff it leaves; arg is the name of
\* the script the handler was called with, if any
Become(name, arg, self) ==
    /\ deputies' = self.deputies
    /\ _next_sheriff_id' = self._next_sheriff_id
    /\ scripts' = self.scripts
    /\ active_script_context' = self.active_script_context
    /\ waiting_on_commands' = self.waiting_on_commands
    /\ waiting_for_status' = self.waiting_for_status
    /\ last_script_action_time' = self.last_script_action_time
    /\ timeouts' = self.timeouts
    /\ events' = self.events
    /\ published' = self.published
    /\ raised' = self.raised
    /\ returned' = self.returned
    /\ op' = [ name |-> name, host |-> arg, ids |-> {} ]

InitScript ==
    /\ deputies = [ h \in { LifeHost } |->
                      [ NewDeputy EXCEPT !.commands =
                          [ k \in { 1 } |->
                              [ NewCommand EXCEPT !.sheriff_id = 1, !.name = "a",
                                                  !.nickname = "a", !.group = "a" ] ] ] ]
    /\ _is_observer = FALSE
    /\ _next_sheriff_id = 2
    /\ now = StartTime
    /\ op = [ name |-> "__init__", host |-> None, ids |-> {} ]
    /\ raised = None
    /\ events = << >>
    /\ published = << >>
    /\ inbound = 0
    /\ steps = 0
    /\ probe = Idle
    /\ scripts = ScriptPool
    /\ active_script_context = << >>
    /\ waiting_on_commands = << >>
    /\ waiting_for_status = None
    /\ last_script_action_time = 0
    /\ timeouts = 0
    /\ returned = << >>

\* Sheriff.execute_script; the clock may advance while it runs
ExecuteScript ==
    /\ steps < MaxScriptSteps
    /\ \E i \in DOMAIN scripts, t2 \in { now, now + 1 } :
         /\ Become("execute_script", scripts[i].name,
                   execute_script(Self, << LifeHost >>, scripts[i], now, t2))
         /\ now' = t2
    /\ steps' = steps + 1
    /\ UNCHANGED << _is_observer, inbound, probe >>

\* Sheriff.abort_script; with no active script it fails on
\* self.active_script_context.script
AbortScript ==
    /\ steps < MaxScriptSteps
    /\ Become("abort_script", None,
              IF active_script_context = << >>
              THEN [ Self EXCEPT !.raised = "AttributeError" ]
              ELSE abort_script(Self))
    /\ steps' = steps + 1
    /\ UNCHANGED << _is_observer, now, inbound, probe >>

\* Sheriff.check_script_for_errors
CheckScriptForErrors ==
    /\ steps < MaxScriptSteps
    /\ \E i \in DOMAIN scripts :
         Become("check_script_for_errors", scripts[i].name,
                [ Self EXCEPT !.returned =
                    check_script_for_errors(scripts, deputies, << LifeHost >>,
                                            scripts[i], << >>) ])
    /\ steps' = steps + 1
    /\ UNCHANGED << _is_observer, now, inbound, probe >>

\* Sheriff.add_script
AddScript ==
    /\ steps < MaxScriptSteps
    /\ \E i \in ScriptEdits : Become("add_script", ScriptPool[i].name, add_script(Self, ScriptPool[i]))
    /\ steps' = steps + 1
    /\ UNCHANGED << _is_observer, now, inbound, probe >>

\* Sheriff.remove_script
RemoveScript ==
    /\ steps < MaxScriptSteps
    /\ \E i \in ScriptEdits :
         Become("remove_script", ScriptPool[i].name, remove_script(Self, ScriptPool[i]))
    /\ steps' = steps + 1
    /\ UNCHANGED << _is_observer, now, inbound, probe >>

\* a timeout that gobject.timeout_add registered runs
\* _execute_next_script_action, which returns False: it runs once
RunTimeout ==
    /\ timeouts > 0
    /\ \E t2 \in { now, now + 1 } :
         /\ Become("_execute_next_script_action", None,
                   _execute_next_script_action([ Self EXCEPT !.timeouts = @ - 1 ],
                                               << LifeHost >>, now, t2))
         /\ now' = t2
    /\ UNCHANGED << _is_observer, inbound, probe, steps >>

\* the deputy reports the command: running, or exited with status 0, as the
\* run the sheriff last asked for
ScriptInfo ==
    /\ steps < MaxScriptSteps
    /\ \E pid \in { 0, 7 } :
         Become("_on_pmd_info", None,
                OnInfo(Self,
                       [ utime |-> now, host |-> LifeHost,
                         cmds |-> << CmdInfo(1, << pid, 0,
                                     deputies[LifeHost].commands[1].desired_runid >>) >> ],
                       now))
    /\ inbound' = inbound + 1
    /\ steps' = steps + 1
    /\ UNCHANGED << _is_observer, now, probe >>

\* Sheriff.set_observer
ScriptSetObserver ==
    /\ steps < MaxScriptSteps
    /\ \E b \in BOOLEAN : _is_observer' = b
    /\ op' = [ name |-> "set_observer", host |-> None, ids |-> {} ]
    /\ raised' = None /\ events' = << >> /\ published' = << >> /\ returned' = << >>
    /\ steps' = steps + 1
    /\ UNCHANGED << deputies, _next_sheriff_id, now, inbound, probe, scripts,
                    active_script_context, waiting_on_commands, waiting_for_status,
                    last_script_action_time, timeouts >>

\* a microsecond passes, no handler running
Tick ==
    /\ steps < MaxScriptSteps
    /\ now' = now + 1
    /\ op' = [ name |-> "idle", host |-> None, ids |-> {} ]
    /\ raised' = None /\ events' = << >> /\ published' = << >> /\ returned' = << >>
    /\ steps' = steps + 1
    /\ UNCHANGED << deputies, _is_observer, _next_sheriff_id, inbound, probe, scripts,
                    active_script_context, waiting_on_commands, waiting_for_status,
                    last_script_action_time, timeouts >>

NextScript ==
    \/ ExecuteScript
    \/ AbortScript
    \/ CheckScriptForErrors
    \/ AddScript
    \/ RemoveScript
    \/ RunTimeout
    \/ ScriptInfo
    \/ ScriptSetObserver
    \/ Tick

SpecScript == InitScript /\ [][NextScript]_vars


\* the main loop runs every timeout that is pending: the executor under weak
\* fairness of its timeouts (a run of one takes it off the pending ones or
\* moves the active context on), the environment free to stop at any time
SpecScriptFair ==
    SpecScript /\ WF_<< timeouts, active_script_context >>(RunTimeout)

(***************************************************************************)
(* Config files (bot_procman/sheriff_config.py): the tree of groups,       *)
(* commands and scripts, its text form and the tokenizer and parser that   *)
(* read the text back.  A text is a string, read one character at a time;  *)
(* a command is the dict of its attributes; a ParseError is the message it *)
(* carries.                                                                *)
(***************************************************************************)
TokIdentifier   == "Identifier"
TokOpenStruct   == "OpenStruct"
TokCloseStruct  == "CloseStruct"
TokAssign       == "Assign"
TokEndStatement == "EndStatement"
TokString       == "String"
TokEOF          == "EOF"
TokComment      == "Comment"
TokInteger      == "Integer"
\* what next_token yields in place of a token: a ParseError, or no return
ParseError      == "ParseError"
NoReturn        == "NoReturn"

Token(type, val) == [ type |-> type, val |-> val ]

\* the characters of a string
CharsOf(s) == { SubSeq(s, i, i) : i \in 1 .. Len(s) }

Spaces  == CharsOf(" \t\n\r\f")
Digits  == CharsOf("0123456789")
Letters == CharsOf("abcdefghijklmnopqrstuvwxyzABCDEFGHIJKLMNOPQRSTUVWXYZ")

isspace(c) == c \in Spaces
isdigit(c) == c \in Digits
isalpha(c) == c \in Letters
isalnum(c) == c \in Letters \cup Digits

\* Tokenizer._next_char on the text not yet read: '' at the end of the file
_next_char(text) == IF text = "" THEN "" ELSE Head(text)

\* the text after _next_char
Read(text) == IF text = "" THEN "" ELSE Tail(text)

\* Tokenizer._unescape
_unescape(c) == IF c = "n" THEN "\n" ELSE IF c = "r" THEN "\r" ELSE IF c = "t" THEN "\t" ELSE c

\* next_token's result: the token (or ParseError with its message) and the
\* text left to read; an unget character is left in the text
Scanned(type, val, text) == [ type |-> type, val |-> val, rest |-> text ]

\* next_token: the loop that skips white space
RECURSIVE SkipSpace(_)
SkipSpace(text) == IF isspace(_next_char(text)) THEN SkipSpace(Read(text)) ELSE text

\* next_token: the loop of a comment
RECURSIVE ScanComment(_, _)
ScanComment(text, tok_chars) ==
    IF _next_char(text) \in { "", "\n" } THEN Scanned(TokComment, tok_chars, Read(text))
    ELSE ScanComment(Read(text), tok_chars \o _next_char(text))

\* next_token: the loop of a string constant
RECURSIVE ScanString(_, _)
ScanString(text, tok_chars) ==
    IF _next_char(text) = "\n"
    THEN Scanned(ParseError, "Unterminated string constant", Read(text))
    ELSE IF _next_char(text) = "\\"
    THEN ScanString(Read(Read(text)), tok_chars \o _unescape(_next_char(Read(text))))
    ELSE IF _next_char(text) \in { "", "\"" }
    THEN Scanned(TokString, tok_chars, Read(text))
    ELSE ScanString(Read(text), tok_chars \o _next_char(text))

\* next_token: the loop of an identifier; at the end of the file c is '',
\* which python finds in "_-", and the loop never ends
RECURSIVE ScanIdentifier(_, _)
ScanIdentifier(text, tok_chars) ==
    IF text = "" THEN Scanned(NoReturn, "next_token does not return", "")
    ELSE IF ~isalnum(_next_char(text)) /\ _next_char(text) \notin { "_", "-" }
    THEN Scanned(TokIdentifier, tok_chars, text)
    ELSE ScanIdentifier(Read(text), tok_chars \o _next_char(text))

\* next_token: the loop of an integer
RECURSIVE ScanInteger(_, _)
ScanInteger(text, tok_chars) ==
    IF ~isdigit(_next_char(text)) THEN Scanned(TokInteger, tok_chars, text)
    ELSE ScanInteger(Read(text), tok_chars \o _next_char(text))

\* next_token from its first character that is not white space
TokenAt(c, text) ==
    IF c = "" THEN Scanned(TokEOF, "", "")
    ELSE IF c = "=" THEN Scanned(TokAssign, c, text)
    ELSE IF c = ";" THEN Scanned(TokEndStatement, c, text)
    ELSE IF c = "{" THEN Scanned(TokOpenStruct, c, text)
    ELSE IF c = "}" THEN Scanned(TokCloseStruct, c, text)
    ELSE IF c = "#" THEN ScanComment(text, c)
    ELSE IF c = "\"" THEN ScanString(text, "")
    ELSE IF isalpha(c) \/ c = "_" THEN ScanIdentifier(text, c)
    ELSE IF isdigit(c) THEN ScanInteger(text, c)
    ELSE Scanned(ParseError, "Invalid character", text)

\* Tokenizer.next_token
next_token(text) == TokenAt(_next_char(SkipSpace(text)), Read(SkipSpace(text)))

\* escape_str's escape_char
escape_char(c) == IF c \in { "\\", "\"" } THEN "\\" \o c ELSE c

\* escape_str
RECURSIVE escape_str(_)
escape_str(text) ==
    IF text = "" THEN "" ELSE escape_char(Head(text)) \o escape_str(Tail(text))

\* "\n".join(lines) and its like
RECURSIVE Join(_, _)
Join(sep, lines) ==
    IF lines = << >> THEN ""
    ELSE IF Len(lines) = 1 THEN lines[1]
    ELSE lines[1] \o sep \o Join(sep, Tail(lines))

\* "%d" % n
RECURSIVE FormatInt(_)
FormatInt(n) ==
    IF n < 0 THEN "-" \o FormatInt(0 - n)
    ELSE IF n < 10 THEN SubSeq("0123456789", n + 1, n + 1)
    ELSE FormatInt(n \div 10) \o FormatInt(n % 10)

\* int(s) of a string of digits
RECURSIVE int(_)
int(s) ==
    IF Len(s) = 1 THEN The({ d \in 0 .. 9 : FormatInt(d) = s })
    ELSE 10 * int(SubSeq(s, 1, Len(s) - 1)) + int(SubSeq(s, Len(s), Len(s)))

\* CommandNode.__init__: the attributes
CommandNode ==
    [ k \in { "exec", "host", "group", "nickname" } |->
        IF k \in { "exec", "host" } THEN None ELSE "" ]

\* the attributes the parser knows, as pairs.sort() orders them
AttributesInOrder == << "auto_respawn", "exec", "group", "host", "nickname" >>

\* python's `not val` for an attribute
Falsy(val) == val \in { None, "" }

\* "    " * indent
RECURSIVE Indent(_)
Indent(indent) == IF indent = 0 THEN "" ELSE "    " \o Indent(indent - 1)

\* CommandNode._get_str: the lines of the attributes
RECURSIVE AttributeLines(_, _, _)
AttributeLines(attributes, s, keys) ==
    IF keys = << >> THEN << >>
    ELSE IF Head(keys) \notin DOMAIN attributes \/ Head(keys) \in { "group", "nickname" }
    THEN AttributeLines(attributes, s, Tail(keys))
    ELSE IF Falsy(attributes[Head(keys)])
    THEN AttributeLines(attributes, s, Tail(keys))
    ELSE << s \o "    " \o Head(keys) \o " = \"" \o escape_str(attributes[Head(keys)]) \o "\";" >>
         \o AttributeLines(attributes, s, Tail(keys))

\* CommandNode._get_str
_get_str(attributes, indent) ==
    Join("\n",
         << IF Len(attributes["nickname"]) > 0
            THEN Indent(indent) \o "cmd \"" \o escape_str(attributes["nickname"]) \o "\" {"
            ELSE Indent(indent) \o "cmd {" >>
         \o AttributeLines(attributes, Indent(indent), AttributesInOrder)
         \o << Indent(indent) \o "}" >>)

\* GroupNode.__init__ with the commands add_command appended
GroupNode(name, commands) == [ name |-> name, commands |-> commands ]

\* [cmd._get_str(indent) for cmd in self.commands]
CommandStrs(commands, indent) == [ i \in DOMAIN commands |-> _get_str(commands[i], indent) ]

\* GroupNode.__str__
GroupNode_str(group) ==
    IF group.name = "" THEN Join("\n", CommandStrs(group.commands, 0))
    ELSE "group \"" \o group.name \o "\" {\n" \o Join("\n", CommandStrs(group.commands, 1)) \o "\n}\n"

\* StartStopRestartActionNode.__str__: ident_str
ident_str(action) ==
    IF action.ident_type = "everything" THEN action.ident_type
    ELSE action.ident_type \o " \"" \o escape_str(action.ident) \o "\""

\* the __str__ of the action nodes
ActionNode_str(action) ==
    IF action.action_type \in { "start", "stop", "restart" }
    THEN IF action.wait_status # None
         THEN action.action_type \o " " \o ident_str(action) \o " wait \"" \o action.wait_status \o "\";"
         ELSE action.action_type \o " " \o ident_str(action) \o ";"
    ELSE IF action.action_type = "wait_ms"
    THEN "wait ms " \o FormatInt(action.delay_ms) \o ";"
    ELSE IF action.action_type = "wait_status"
    THEN "wait " \o action.ident_type \o " \"" \o escape_str(action.ident) \o "\" status \"" \o action.wait_status \o "\";"
    ELSE "run_script \"" \o escape_str(action.script_name) \o "\";"

\* ScriptNode.__str__: the loop over the actions
RECURSIVE ActionLines(_)
ActionLines(actions) ==
    IF actions = << >> THEN ""
    ELSE "\n    " \o ActionNode_str(Head(actions)) \o ActionLines(Tail(actions))

\* ScriptNode.__str__
ScriptNode_str(script) ==
    "script \"" \o escape_str(script.name) \o "\" {" \o ActionLines(script.actions) \o "\n}\n"

\* ConfigNode.__init__
ConfigNode == [ groups |-> [ n \in { "" } |-> GroupNode("", << >>) ], scripts |-> [ n \in {} |-> ScriptNode("", << >>) ] ]

\* the names of the model's groups and scripts as sorted(key = name.lower())
\* orders them
NamesInOrder == << "", "a\nb", "a\"b", "a\\b", "ab", "b" >>

Sorted(names) == SelectSeq(NamesInOrder, LAMBDA n : n \in names)

\* ConfigNode.__str__
ConfigNode_str(cfg) ==
    Join("\n", [ i \in 1 .. Len(Sorted(DOMAIN cfg.groups)) |-> GroupNode_str(cfg.groups[Sorted(DOMAIN cfg.groups)[i]]) ])
    \o "\n"
    \o Join("\n", [ i \in 1 .. Len(Sorted(DOMAIN cfg.scripts)) |-> ScriptNode_str(cfg.scripts[Sorted(DOMAIN cfg.scripts)[i]]) ])

\* the Parser: _cur_tok, _next_tok, the text its tokenizer has not read, and
\* the ParseError (or AssertionError) raised so far, after which nothing
\* more is done
NewParser(text) == [ cur |-> Token(None, None), next |-> Token(None, None), rest |-> text, raised |-> None ]

\* a parsing method's result: the parser after it and the value returned
Parsed(P, val) == [ p |-> P, val |-> val ]

\* Parser._get_token: the loop over the comments
RECURSIVE NextNonComment(_)
NextNonComment(text) ==
    The({ IF s.type = TokComment THEN NextNonComment(s.rest) ELSE s : s \in { next_token(text) } })

\* Parser._get_token
_get_token(P) ==
    IF P.raised # None THEN P
    ELSE The({ [ cur |-> P.next, next |-> Token(s.type, s.val), rest |-> s.rest,
                 raised |-> IF s.type \in { ParseError, NoReturn } THEN s.val ELSE None ] :
               s \in { NextNonComment(P.rest) } })

\* the condition of Parser._eat_token
Eats(P, tok_type) == P.raised = None /\ P.next.type = tok_type

\* Parser._fail and Parser._fail_next_token
_fail(P, msg) == IF P.raised # None THEN P ELSE [ P EXCEPT !.raised = msg ]

\* Parser._eat_token_or_fail
_eat_token_or_fail(P, tok_type, err_msg) ==
    IF Eats(P, tok_type) THEN _get_token(P) ELSE _fail(P, err_msg)

\* Parser._expect_identifier, Parser._parse_identifier_one_of and
\* Parser._parse_string_one_of: the check of the token just eaten
OneOf(P, valid, err_msg) ==
    IF P.raised = None /\ P.cur.val \notin valid THEN _fail(P, err_msg) ELSE P

\* Parser._parse_identifier_one_of
_parse_identifier_one_of(P, valid_identifiers) ==
    OneOf(_eat_token_or_fail(P, TokIdentifier, "Expected one of"), valid_identifiers, "Expected one of")

\* Parser._parse_string_one_of
_parse_string_one_of(P, valid_strings) ==
    OneOf(_eat_token_or_fail(P, TokString, "Expected one of"), valid_strings, "Expected one of")

\* Parser._expect_identifier
_expect_identifier(P, identifier, err_msg) ==
    OneOf(_eat_token_or_fail(P, TokIdentifier, err_msg), { identifier }, err_msg)

\* Parser._parse_string_or_fail
_parse_string_or_fail(P) == _eat_token_or_fail(P, TokString, "Expected string literal")

CommandAttributes == { "exec", "host", "nickname", "auto_respawn", "group" }

\* Parser._parse_command_param_list
RECURSIVE _parse_command_param_list(_, _)
RECURSIVE ParamName(_, _)
RECURSIVE ParamValue(_, _, _)
RECURSIVE ParamEnd(_, _, _, _)
_parse_command_param_list(P, cmd) ==
    IF ~Eats(P, TokIdentifier) THEN Parsed(P, cmd) ELSE ParamName(_get_token(P), cmd)

\* ... from the attribute's name on
ParamName(P, cmd) ==
    IF P.raised # None THEN Parsed(P, cmd)
    ELSE IF P.cur.val \notin CommandAttributes
    THEN Parsed(_fail(P, "Unrecognized attribute " \o P.cur.val), cmd)
    ELSE ParamValue(P.cur.val, _parse_string_or_fail(_eat_token_or_fail(P, TokAssign, "Expected '='")), cmd)

\* ... from the attribute's value on
ParamValue(attrib_name, P, cmd) ==
    ParamEnd(attrib_name, P.cur.val, _eat_token_or_fail(P, TokEndStatement, "Expected ';'"), cmd)

\* ... from the end of the statement on
ParamEnd(attrib_name, attrib_val, P, cmd) ==
    IF P.raised # None THEN Parsed(P, cmd)
    ELSE IF attrib_name = "nickname" /\ Len(cmd["nickname"]) > 0
    THEN Parsed(_fail(P, "Command already has a nickname " \o cmd["nickname"]), cmd)
    ELSE _parse_command_param_list(P, DictSet(cmd, attrib_name, attrib_val))

\* Parser._parse_command: the check of exec
CommandChecked(P, cmd) ==
    Parsed(IF Falsy(cmd["exec"]) THEN _fail(P, "Invalid command defined -- no executable specified") ELSE P, cmd)

\* Parser._parse_command: from the closing brace on
CommandEnd(r) == CommandChecked(_eat_token_or_fail(r.p, TokCloseStruct, "Expected '}'"), r.val)

\* Parser._parse_command: from the opening brace on
CommandBody(P, cmd) ==
    CommandEnd(_parse_command_param_list(_eat_token_or_fail(P, TokOpenStruct, "Expected '{'"), cmd))

\* Parser._parse_command: the nickname in front of the brace
CommandNamed(P) == CommandBody(P, DictSet(CommandNode, "nickname", P.cur.val))

\* Parser._parse_command
_parse_command(P) ==
    IF Eats(P, TokString) THEN CommandNamed(_get_token(P)) ELSE CommandBody(P, CommandNode)

\* Parser._parse_command_list
RECURSIVE _parse_command_list(_, _)
RECURSIVE CommandListItem(_, _)
RECURSIVE CommandListNext(_, _)
_parse_command_list(P, cmds) ==
    IF ~Eats(P, TokIdentifier) THEN Parsed(P, cmds) ELSE CommandListItem(_get_token(P), cmds)

\* ... the identifier is eaten whether it is cmd or not
CommandListItem(P, cmds) ==
    IF P.raised # None \/ P.cur.val # "cmd" THEN Parsed(P, cmds)
    ELSE CommandListNext(_parse_command(P), cmds)

CommandListNext(r, cmds) == _parse_command_list(r.p, Append(cmds, r.val))

\* GroupNode.add_command for each command of a list
GroupOf(name, cmds) == GroupNode(name, [ i \in DOMAIN cmds |-> DictSet(cmds[i], "group", name) ])

\* Parser._parse_group: from the closing brace on
GroupEnd(name, r) ==
    Parsed(_eat_token_or_fail(r.p, TokCloseStruct, "Expected '}'"), GroupOf(name, r.val))

\* Parser._parse_group: from the opening brace on
GroupBody(P) ==
    GroupEnd(P.cur.val, _parse_command_list(_eat_token_or_fail(P, TokOpenStruct, "Expected '{'"), << >>))

\* Parser._parse_group
_parse_group(P) == GroupBody(_eat_token_or_fail(P, TokString, "Expected group name string"))

\* Parser._parse_start_stop_restart_action: the wait clause
ActionWait(action_type, ident_type, ident, P) ==
    Parsed(_eat_token_or_fail(P, TokEndStatement, "Expected ';'"), StartStopRestartActionNode(action_type, ident_type, ident, P.cur.val))

\* Parser._parse_start_stop_restart_action: after the identifier
ActionTail(action_type, ident_type, ident, P) ==
    IF Eats(P, TokEndStatement)
    THEN Parsed(_get_token(P), StartStopRestartActionNode(action_type, ident_type, ident, None))
    ELSE ActionWait(action_type, ident_type, ident, _parse_string_one_of(_expect_identifier(P, "wait", "Expected ';' or 'wait'"), { "running", "stopped" }))

\* Parser._parse_start_stop_restart_action: the string of cmd and group
ActionIdent(action_type, ident_type, P) == ActionTail(action_type, ident_type, P.cur.val, P)

\* Parser._parse_start_stop_restart_action: after the kind of identifier
ActionTarget(action_type, P) ==
    IF P.cur.val # "everything" THEN ActionIdent(action_type, P.cur.val, _parse_string_or_fail(P))
    ELSE ActionTail(action_type, "everything", None, P)

\* Parser._parse_start_stop_restart_action
_parse_start_stop_restart_action(P, action_type) ==
    ActionTarget(action_type, _parse_identifier_one_of(P, { "everything", "cmd", "group" }))

\* Parser._parse_wait_action: wait ms
WaitMs(P) ==
    Parsed(_eat_token_or_fail(P, TokEndStatement, "Expected ';'"), WaitMsActionNode(IF P.raised = None THEN int(P.cur.val) ELSE 0))

\* Parser._parse_wait_action: the status of wait cmd and wait group
WaitStatusEnd(wait_type, ident, P) ==
    Parsed(_eat_token_or_fail(P, TokEndStatement, "Expected ';'"), WaitStatusActionNode(wait_type, ident, P.cur.val))

\* Parser._parse_wait_action: the string of wait cmd and wait group
WaitStatus(wait_type, P) ==
    WaitStatusEnd(wait_type, P.cur.val, _parse_string_one_of(_expect_identifier(P, "status", "Expected status"), { "running", "stopped" }))

\* Parser._parse_wait_action: after ms, cmd or group
WaitKind(P) ==
    IF P.cur.val = "ms" THEN WaitMs(_eat_token_or_fail(P, TokInteger, "Expected integer constant"))
    ELSE WaitStatus(P.cur.val, _parse_string_or_fail(P))

\* Parser._parse_wait_action
_parse_wait_action(P) == WaitKind(_parse_identifier_one_of(P, { "ms", "cmd", "group" }))

\* Parser._parse_run_script: after the name
RunScriptEnd(P) ==
    Parsed(_eat_token_or_fail(P, TokEndStatement, "Expected ';'"), RunScriptActionNode(P.cur.val))

\* Parser._parse_run_script
_parse_run_script(P) == RunScriptEnd(_eat_token_or_fail(P, TokString, "expected script name"))

\* Parser._parse_script_action_list: the loop
RECURSIVE ActionList(_, _)
RECURSIVE ActionListItem(_, _)
RECURSIVE ActionListNext(_, _)
ActionList(P, actions) ==
    IF ~Eats(P, TokIdentifier) THEN Parsed(P, actions) ELSE ActionListItem(_get_token(P), actions)

\* ... the body of the loop
ActionListItem(P, actions) ==
    IF P.raised # None THEN Parsed(P, actions)
    ELSE IF P.cur.val \in { "start", "stop", "restart" }
    THEN ActionListNext(_parse_start_stop_restart_action(P, P.cur.val), actions)
    ELSE IF P.cur.val = "wait" THEN ActionListNext(_parse_wait_action(P), actions)
    ELSE IF P.cur.val = "run_script" THEN ActionListNext(_parse_run_script(P), actions)
    ELSE Parsed(_fail(P, "Unexpected token " \o P.cur.val), actions)

ActionListNext(r, actions) == ActionList(r.p, Append(actions, r.val))

\* Parser._parse_script_action_list: from the closing brace on
ActionListEnd(r) == Parsed(_eat_token_or_fail(r.p, TokCloseStruct, "Unexpected token"), r.val)

\* Parser._parse_script_action_list
_parse_script_action_list(P) ==
    ActionListEnd(ActionList(_eat_token_or_fail(P, TokOpenStruct, "Expected '{'"), << >>))

\* Parser._parse_script: the node of the actions
ScriptOf(name, r) == Parsed(r.p, ScriptNode(name, r.val))

\* Parser._parse_script: after the name
ScriptBody(P) == ScriptOf(P.cur.val, _parse_script_action_list(P))

\* Parser._parse_script
_parse_script(P) == ScriptBody(_eat_token_or_fail(P, TokString, "expected script name"))

\* ConfigNode.add_command
ConfigNode_add_command(node, command) ==
    [ node EXCEPT !.groups[""].commands = Append(@, DictSet(command, "group", "")) ]

\* ConfigNode.add_group
ConfigNode_add_group(node, group) == [ node EXCEPT !.groups = DictSet(@, group.name, group) ]

\* ConfigNode.add_script
ConfigNode_add_script(node, script) == [ node EXCEPT !.scripts = DictSet(@, script.name, script) ]

\* Parser._parse_listdecl; after a command, a group or a script _cur_tok is
\* the closing brace, so that at most one of the three branches is taken
RECURSIVE _parse_listdecl(_, _)
RECURSIVE ListDecl(_, _)
RECURSIVE ListDeclCommand(_, _)
RECURSIVE ListDeclGroup(_, _)
RECURSIVE ListDeclScript(_, _)
_parse_listdecl(P, node) ==
    IF P.raised # None THEN Parsed(P, node)
    ELSE IF Eats(P, TokEOF) THEN Parsed(_get_token(P), node)
    ELSE IF ~Eats(P, TokIdentifier) THEN Parsed(_fail(P, "Expected 'cmd', 'group', or 'script'"), node)
    ELSE ListDecl(_get_token(P), node)

\* ... after the identifier
ListDecl(P, node) ==
    IF P.raised # None THEN Parsed(P, node)
    ELSE IF P.cur.val = "cmd" THEN ListDeclCommand(_parse_command(P), node)
    ELSE IF P.cur.val = "group" THEN ListDeclGroup(_parse_group(P), node)
    ELSE IF P.cur.val = "script" THEN ListDeclScript(_parse_script(P), node)
    ELSE Parsed(_fail(P, "Expected 'cmd', 'group', or 'script'"), node)

\* ... node.add_command
ListDeclCommand(r, node) ==
    IF r.p.raised # None THEN Parsed(r.p, node)
    ELSE _parse_listdecl(r.p, ConfigNode_add_command(node, r.val))

\* ... node.add_group and its assertion
ListDeclGroup(r, node) ==
    IF r.p.raised # None THEN Parsed(r.p, node)
    ELSE IF r.val.name \in DOMAIN node.groups THEN Parsed(_fail(r.p, "AssertionError"), node)
    ELSE _parse_listdecl(r.p, ConfigNode_add_group(node, r.val))

\* ... node.add_script and its assertion
ListDeclScript(r, node) ==
    IF r.p.raised # None THEN Parsed(r.p, node)
    ELSE IF r.val.name \in DOMAIN node.scripts THEN Parsed(_fail(r.p, "AssertionError"), node)
    ELSE _parse_listdecl(r.p, ConfigNode_add_script(node, r.val))

\* Parser.parse: the tree, or the error raised
parse(text) ==
    The({ [ raised |-> r.p.raised, node |-> IF r.p.raised = None THEN r.val ELSE ConfigNode ] :
          r \in { _parse_listdecl(_get_token(NewParser(text)), ConfigNode) } })

(***************************************************************************)
(* The round trip of a config tree through its text: the tree is drawn in  *)
(* the initial state, one action writes it with ConfigNode.__str__ and     *)
(* the next reads the text with Parser.parse.                              *)
(***************************************************************************)
\* names and values: plain, with a double quote, a backslash, a newline
FileStrings == { "ab", "a\"b", "a\\b", "a\nb" }

\* a CommandNode with exec and nickname set
FileCommand(exec, nickname) == DictSet(DictSet(CommandNode, "exec", exec), "nickname", nickname)

FileCommands ==
    { FileCommand(e, "") : e \in FileStrings }
    \cup { FileCommand("ab", n) : n \in FileStrings }
    \cup { DictSet(FileCommand("ab", ""), "host", "b"), DictSet(FileCommand("ab", "b"), "auto_respawn", "true") }

FileActions ==
    { StartStopRestartActionNode("start", "cmd", s, "running") : s \in FileStrings }
    \cup { RunScriptActionNode(s) : s \in FileStrings }
    \cup { StartStopRestartActionNode("stop", "everything", None, None),
           StartStopRestartActionNode("restart", "group", "ab", "stopped"),
           WaitMsActionNode(50), WaitMsActionNode(0),
           WaitStatusActionNode("cmd", "a\"b", "stopped"),
           WaitStatusActionNode("group", "ab", "running") }

\* the groups of a tree: the group "" every ConfigNode has, and the others
FileGroups ==
    { [ n \in { "" } |-> GroupOf("", cmds) ] : cmds \in SeqsUpTo(FileCommands, MaxFileCmds) }

FileNamedGroups ==
    { [ n \in {} |-> GroupNode("", << >>) ] }
    \cup { [ n \in { name } |-> GroupOf(name, cmds) ] :
           name \in FileStrings, cmds \in SeqsUpTo({ FileCommand("ab", ""), FileCommand("b", "ab") }, MaxFileCmds) }

FileScripts ==
    { [ n \in {} |-> ScriptNode("", << >>) ] }
    \cup { [ n \in { name } |-> ScriptNode(name, actions) ] :
           name \in FileStrings, actions \in SeqsUpTo(FileActions, MaxFileActions) }

\* the two dicts of groups as one
Merged(d1, d2) == [ n \in (DOMAIN d1) \cup (DOMAIN d2) |-> IF n \in DOMAIN d1 THEN d1[n] ELSE d2[n] ]

FileConfigs ==
    { [ groups |-> Merged(g, ng), scripts |-> s ] : g \in FileGroups, ng \in FileNamedGroups, s \in FileScripts }

InitFile ==
    /\ deputies = [ h \in {} |-> NewDeputy ]
    /\ _is_observer = FALSE
    /\ _next_sheriff_id = 1
    /\ now = StartTime
    /\ op = [ name |-> "__init__", host |-> None, ids |-> {} ]
    /\ raised = None
    /\ events = << >>
    /\ published = << >>
    /\ inbound = 0
    /\ steps = 0
    /\ InitExecutor
    /\ probe \in { [ fn |-> "config", stage |-> 0, cfg |-> c, text |-> "",
                     result |-> [ raised |-> None, node |-> ConfigNode ] ] : c \in FileConfigs }

\* str(config)
FileStr ==
    /\ probe.stage = 0
    /\ probe' = [ probe EXCEPT !.stage = 1, !.text = ConfigNode_str(probe.cfg) ]
    /\ UNCHANGED << deputies, _is_observer, _next_sheriff_id, now, executor, op, raised,
                    events, published, inbound, steps >>

\* Parser().parse(f), f holding the text
FileParse ==
    /\ probe.stage = 1
    /\ probe' = [ probe EXCEPT !.stage = 2, !.result = parse(probe.text) ]
    /\ UNCHANGED << deputies, _is_observer, _next_sheriff_id, now, executor, op, raised,
                    events, published, inbound, steps >>

NextFile ==
    \/ FileStr
    \/ FileParse

SpecFile == InitFile /\ [][NextFile]_vars

(***************************************************************************)
(* An observer and the orders of a peer sheriff: the observer flag is set, *)
(* and orders messages as a peer's _make_orders_message builds them (each  *)
(* sheriff id once, none of them 0) arrive; probe keeps the last message.  *)
(***************************************************************************)
\* name (also nickname and group), desired_runid, force_quit, auto_respawn
PeerIntents == { << "a", 1, FALSE, FALSE >>, << "a", 1, FALSE, TRUE >>, << "b", 2, TRUE, FALSE >>, << "b", 1, FALSE, TRUE >> }

\* a sheriff_cmd_t of a peer's orders
PeerOrder(i, in) ==
    [ sheriff_id |-> i, name |-> in[1], nickname |-> in[1], group |-> in[1],
      desired_runid |-> in[2], force_quit |-> in[3], auto_respawn |-> in[4] ]

\* the cmds of a peer's orders message
PeerOrders ==
    { cmds \in SeqsUpTo({ PeerOrder(i, in) : i \in 1 .. MaxPeerCmds, in \in PeerIntents }, MaxPeerCmds) :
        \A i, j \in DOMAIN cmds : cmds[i].sheriff_id = cmds[j].sheriff_id => i = j }

InitMirror == Init

\* Sheriff.set_observer
MirrorSetObserver ==
    /\ steps < MaxMirrorSteps
    /\ \E b \in BOOLEAN : _is_observer' = b
    /\ op' = [ name |-> "set_observer", host |-> None, ids |-> {} ]
    /\ raised' = None /\ events' = << >> /\ published' = << >>
    /\ steps' = steps + 1
    /\ probe' = Idle
    /\ UNCHANGED << deputies, _next_sheriff_id, now, executor, inbound >>

\* a PMD_ORDERS message of a peer arrives
MirrorOrders ==
    /\ steps < MaxMirrorSteps
    /\ \E h \in Hosts, cmds \in PeerOrders :
         /\ Leave("_on_pmd_orders", h, UpdatedIds(cmds),
                  _on_pmd_orders(deputies, _next_sheriff_id, _is_observer,
                                 [ host |-> h, cmds |-> cmds ]))
         /\ probe' = [ fn |-> "_on_pmd_orders", host |-> h, cmds |-> cmds ]
    /\ inbound' = inbound + 1
    /\ UNCHANGED << _is_observer, now, executor >>

NextMirror ==
    \/ MirrorSetObserver
    \/ MirrorOrders

SpecMirror == InitMirror /\ [][NextMirror]_vars

(***************************************************************************)
(* The five calls that change a command and broadcast the orders, outside  *)
(* observer mode, with the deputies' reports between them; probe keeps the *)
(* effects of the last call in the order of its statements.                *)
(***************************************************************************)
InitBroadcast == Init

\* the state a call leaves, with its effects
LeaveLogged(name, host, ids, outcome) ==
    /\ Leave(name, host, ids, outcome)
    /\ probe' = [ fn |-> "effects", log |-> outcome.effects ]

BroadcastAddCommand ==
    /\ steps < MaxBroadcastSteps
    /\ \E h \in Hosts, a \in BOOLEAN :
         LeaveLogged("add_command", h, { _next_sheriff_id },
                     add_command(deputies, _next_sheriff_id, _is_observer, h, "a", "a", "a", a))
    /\ UNCHANGED << _is_observer, now, executor, inbound >>

BroadcastStartCommand ==
    /\ steps < MaxBroadcastSteps
    /\ \E hk \in Held :
         LeaveLogged("start_command", hk[1], { hk[2] },
                     start_command(deputies, _next_sheriff_id, _is_observer, hk[1], hk[2]))
    /\ UNCHANGED << _is_observer, now, executor, inbound >>

BroadcastRestartCommand ==
    /\ steps < MaxBroadcastSteps
    /\ \E hk \in Held :
         LeaveLogged("restart_command", hk[1], { hk[2] },
                     restart_command(deputies, _next_sheriff_id, _is_observer, hk[1], hk[2]))
    /\ UNCHANGED << _is_observer, now, executor, inbound >>

BroadcastStopCommand ==
    /\ steps < MaxBroadcastSteps
    /\ \E hk \in Held :
         LeaveLogged("stop_command", hk[1], { hk[2] },
                     stop_command(deputies, _next_sheriff_id, _is_observer, hk[1], hk[2]))
    /\ UNCHANGED << _is_observer, now, executor, inbound >>

BroadcastScheduleCommandForRemoval ==
    /\ steps < MaxBroadcastSteps
    /\ \E o \in HostOrders, hk \in Held :
         LeaveLogged("schedule_command_for_removal", hk[1], { hk[2] },
                     schedule_command_for_removal(deputies, _next_sheriff_id, _is_observer, o, hk[1], hk[2]))
    /\ UNCHANGED << _is_observer, now, executor, inbound >>

\* a deputy reports the commands it was ordered to run
BroadcastInfo ==
    /\ steps < MaxBroadcastSteps
    /\ \E hk \in Held, ob \in MsgObs :
         \E r \in { _on_pmd_info(deputies, _next_sheriff_id, now,
                                  [ utime |-> now, host |-> hk[1], cmds |-> << CmdInfo(hk[2], ob) >> ]) } :
             LeaveLogged("_on_pmd_info", hk[1], r.applied, r.out)
    /\ inbound' = inbound + 1
    /\ UNCHANGED << _is_observer, now, executor >>

NextBroadcast ==
    \/ BroadcastAddCommand
    \/ BroadcastStartCommand
    \/ BroadcastRestartCommand
    \/ BroadcastStopCommand
    \/ BroadcastScheduleCommandForRemoval
    \/ BroadcastInfo

SpecBroadcast == InitBroadcast /\ [][NextBroadcast]_vars

(***************************************************************************)
(* The timeouts of the script executor and the executions they were        *)
(* registered in.  The executions are numbered as execute_script starts    *)
(* them; probe keeps the number of the last one (run), for every execution *)
(* the number of pending timeouts registered while it was the active one   *)
(* (armed), and the execution of the timeout that has just run (fired, 0   *)
(* after any other call).                                                  *)
(***************************************************************************)
InitTimers ==
    /\ deputies = [ h \in { LifeHost } |->
                      [ NewDeputy EXCEPT !.commands =
                          [ k \in { 1 } |->
                              [ NewCommand EXCEPT !.sheriff_id = 1, !.name = "a",
                                                  !.nickname = "a", !.group = "a" ] ] ] ]
    /\ _is_observer = FALSE
    /\ _next_sheriff_id = 2
    /\ now = StartTime
    /\ op = [ name |-> "__init__", host |-> None, ids |-> {} ]
    /\ raised = None
    /\ events = << >>
    /\ published = << >>
    /\ inbound = 0
    /\ steps = 0
    /\ scripts = ScriptPool
    /\ active_script_context = << >>
    /\ waiting_on_commands = << >>
    /\ waiting_for_status = None
    /\ last_script_action_time = 0
    /\ timeouts = 0
    /\ returned = << >>
    /\ probe = [ fn |-> "timers", run |-> 0, fired |-> 0, armed |-> [ e \in 1 .. MaxTimerSteps |-> 0 ] ]

\* the pending timeouts per execution after a call in which execution `by`
\* registered n timeouts
Armed(armed, by, n) == IF n = 0 THEN armed ELSE [ armed EXCEPT ![by] = @ + n ]

\* Sheriff.execute_script
TimerExecuteScript ==
    /\ steps < MaxTimerSteps
    /\ \E i \in DOMAIN scripts, t2 \in { now, now + 1 } :
         /\ Become("execute_script", scripts[i].name,
                   execute_script(Self, << LifeHost >>, scripts[i], now, t2))
         /\ now' = t2
    /\ steps' = steps + 1
    /\ probe' = IF \E i \in DOMAIN events' : events'[i].sig = "script-started"
                THEN [ probe EXCEPT !.run = @ + 1, !.fired = 0,
                                    !.armed = Armed(@, probe.run + 1, timeouts' - timeouts) ]
                ELSE [ probe EXCEPT !.fired = 0 ]
    /\ UNCHANGED << _is_observer, inbound >>

\* Sheriff.abort_script; with no active script it fails on
\* self.active_script_context.script
TimerAbortScript ==
    /\ steps < MaxTimerSteps
    /\ Become("abort_script", None,
              IF active_script_context = << >>
              THEN [ Self EXCEPT !.raised = "AttributeError" ]
              ELSE abort_script(Self))
    /\ steps' = steps + 1
    /\ probe' = [ probe EXCEPT !.fired = 0 ]
    /\ UNCHANGED << _is_observer, now, inbound >>

\* a pending timeout, registered in execution e, runs
\* _execute_next_script_action
TimerRunTimeout ==
    /\ timeouts > 0
    /\ \E e \in { x \in DOMAIN probe.armed : probe.armed[x] > 0 }, t2 \in { now, now + 1 } :
         /\ Become("_execute_next_script_action", None,
                   _execute_next_script_action([ Self EXCEPT !.timeouts = @ - 1 ],
                                               << LifeHost >>, now, t2))
         /\ now' = t2
         /\ probe' = [ probe EXCEPT !.fired = e,
                                    !.armed = Armed([ @ EXCEPT ![e] = @ - 1 ], probe.run,
                                                    timeouts' - ( timeouts - 1 )) ]
    /\ UNCHANGED << _is_observer, inbound, steps >>

\* the deputy reports the command: running, or exited with status 0
TimerInfo ==
    /\ steps < MaxTimerSteps
    /\ \E pid \in { 0, 7 } :
         Become("_on_pmd_info", None,
                OnInfo(Self,
                       [ utime |-> now, host |-> LifeHost,
                         cmds |-> << CmdInfo(1, << pid, 0,
                                     deputies[LifeHost].commands[1].desired_runid >>) >> ],
                       now))
    /\ inbound' = inbound + 1
    /\ steps' = steps + 1
    /\ probe' = [ probe EXCEPT !.fired = 0, !.armed = Armed(@, probe.run, timeouts' - timeouts) ]
    /\ UNCHANGED << _is_observer, now >>

NextTimers ==
    \/ TimerExecuteScript
    \/ TimerAbortScript
    \/ TimerRunTimeout
    \/ TimerInfo

SpecTimers == InitTimers /\ [][NextTimers]_vars

(***************************************************************************)
(* Script calls: the table holds MaxCallScripts scripts of at most         *)
(* MaxCallActions actions each, every action a wait of the script's own    *)
(* number of milliseconds or a run_script of a script of the table, of     *)
(* the script itself or of a script that is missing.  One script is        *)
(* executed and the main loop runs the timeouts the execution registers.   *)
(***************************************************************************)
CallNames == << "P", "Q", "R", "S", "T" >>

\* the script no table holds
MissingScript == "Z"

Callees == { CallNames[i] : i \in 1 .. MaxCallScripts } \cup { MissingScript }

CallShapes == UNION { [ 1 .. n -> { "wait" } \cup Callees ] : n \in 0 .. MaxCallActions }

CallBody(i, shape) ==
    [ k \in DOMAIN shape |->
        IF shape[k] = "wait" THEN WaitMsActionNode(i)
        ELSE RunScriptActionNode(shape[k]) ]

CallTables ==
    { [ i \in 1 .. MaxCallScripts |-> ScriptNode(CallNames[i], CallBody(i, f[i])) ]
      : f \in [ 1 .. MaxCallScripts -> CallShapes ] }

InitCalls ==
    /\ deputies = [ h \in { LifeHost } |->
                      [ NewDeputy EXCEPT !.commands =
                          [ k \in { 1 } |->
                              [ NewCommand EXCEPT !.sheriff_id = 1, !.name = "a",
                                                  !.nickname = "a", !.group = "a" ] ] ] ]
    /\ _is_observer = FALSE
    /\ _next_sheriff_id = 2
    /\ now = StartTime
    /\ op = [ name |-> "__init__", host |-> None, ids |-> {} ]
    /\ raised = None
    /\ events = << >>
    /\ published = << >>
    /\ inbound = 0
    /\ steps = 0
    /\ scripts \in CallTables
    /\ active_script_context = << >>
    /\ waiting_on_commands = << >>
    /\ waiting_for_status = None
    /\ last_script_action_time = 0
    /\ timeouts = 0
    /\ returned = << >>
    /\ probe = [ fn |-> "calls", root |-> 0, seen |-> << >>, errors |-> << >> ]

\* the actions the dispatcher was given in a call: one script-action-executing
\* signal is emitted for each
RECURSIVE Executed(_)
Executed(evs) ==
    IF evs = << >> THEN << >>
    ELSE ( IF Head(evs).sig = "script-action-executing"
           THEN << Head(evs).new >> ELSE << >> ) \o Executed(Tail(evs))

\* Sheriff.execute_script, called once
CallsExecuteScript ==
    /\ probe.root = 0
    /\ \E i \in DOMAIN scripts :
         /\ Become("execute_script", scripts[i].name,
                   execute_script(Self, << LifeHost >>, scripts[i], now, now))
         /\ probe' = [ probe EXCEPT !.root = i, !.errors = returned',
                                    !.seen = Executed(events') ]
    /\ UNCHANGED << _is_observer, now, inbound, steps >>

\* a pending timeout runs _execute_next_script_action
CallsRunTimeout ==
    /\ timeouts > 0
    /\ Become("_execute_next_script_action", None,
              _execute_next_script_action([ Self EXCEPT !.timeouts = @ - 1 ],
                                          << LifeHost >>, now, now))
    /\ probe' = [ probe EXCEPT !.seen = @ \o Executed(events') ]
    /\ UNCHANGED << _is_observer, now, inbound, steps >>

NextCalls ==
    \/ CallsExecuteScript
    \/ CallsRunTimeout

SpecCalls == InitCalls /\ [][NextCalls]_vars

(***************************************************************************)
(* The run id near its wrap.  Python integers have no width and 2 << 31    *)
(* is beyond the integers of the model checker, so here desired_runid is   *)
(* the pair of q and r that stands for q * RunidWrapQuarter + r with       *)
(* 0 <= r < RunidWrapQuarter.  The command has been started or restarted   *)
(* up to a value just below 2^31 or just below 2 << 31 (a peer's orders    *)
(* bring it to any value of the signed 32 bit field in one message);       *)
(* then the user starts, restarts and stops it, and every call sends the   *)
(* orders.                                                                 *)
(***************************************************************************)
Wide(q, r) == [ q |-> q, r |-> r ]

\* w + 1
WideSucc(w) ==
    IF w.r = RunidWrapQuarter - 1 THEN Wide(w.q + 1, 0) ELSE Wide(w.q, w.r + 1)

\* w > (2 << 31)
WideExceedsRunidWrap(w) == w.q > 4 \/ ( w.q = 4 /\ w.r > 0 )

\* the bump shared by _start and _restart
BumpRunidWide(c) ==
    [ c EXCEPT !.desired_runid = IF WideExceedsRunidWrap(WideSucc(@))
                                 THEN Wide(0, 1) ELSE WideSucc(@),
               !.force_quit = FALSE ]

\* SheriffDeputyCommand._start
_startWide(c) == IF c.pid > 0 /\ ~c.force_quit THEN c ELSE BumpRunidWide(c)

\* SheriffDeputyCommand._restart
_restartWide(c) == BumpRunidWide(c)

\* SheriffDeputyCommand._stop
_stopWide(c) == [ c EXCEPT !.force_quit = TRUE ]

\* the values desired_runid has before the calls
WrapStarts ==
    { Wide(0, 0) }
      \cup { Wide(q, RunidWrapQuarter - j) : q \in { 1, 3 }, j \in 1 .. MaxWrapSteps }

InitWrap ==
    /\ deputies = [ h \in {} |-> NewDeputy ]
    /\ _is_observer = FALSE
    /\ _next_sheriff_id = 1
    /\ now = StartTime
    /\ op = [ name |-> "__init__", host |-> None, ids |-> {} ]
    /\ raised = None
    /\ events = << >>
    /\ published = << >>
    /\ inbound = 0
    /\ steps = 0
    /\ InitExecutor
    /\ probe \in { [ fn |-> "runid",
                     cmd |-> [ pid |-> pid, force_quit |-> FALSE, desired_runid |-> w ],
                     bumps |-> 0,
                     cmd_msg |-> << >> ]
                   : pid \in { 0, 7 }, w \in WrapStarts }

\* the state after start_command, restart_command or stop_command has left
\* the command as cmd: send_orders writes its desired_runid into the message
WrapLeave(name, cmd) ==
    /\ op' = [ name |-> name, host |-> None, ids |-> {} ]
    /\ probe' = [ probe EXCEPT
                    !.cmd = cmd,
                    !.bumps = IF cmd.desired_runid # probe.cmd.desired_runid
                              THEN @ + 1 ELSE @,
                    !.cmd_msg = << [ desired_runid |-> cmd.desired_runid,
                                     force_quit |-> cmd.force_quit ] >> ]
    /\ steps' = steps + 1
    /\ UNCHANGED << deputies, _is_observer, _next_sheriff_id, now, executor, raised,
                    events, published, inbound >>

\* Sheriff.start_command
WrapStartCommand ==
    /\ steps < MaxWrapSteps
    /\ WrapLeave("start_command", _startWide(probe.cmd))

\* Sheriff.restart_command
WrapRestartCommand ==
    /\ steps < MaxWrapSteps
    /\ WrapLeave("restart_command", _restartWide(probe.cmd))

\* Sheriff.stop_command
WrapStopCommand ==
    /\ steps < MaxWrapSteps
    /\ WrapLeave("stop_command", _stopWide(probe.cmd))

NextWrap ==
    \/ WrapStartCommand
    \/ WrapRestartCommand
    \/ WrapStopCommand

SpecWrap == InitWrap /\ [][NextWrap]_vars

(***************************************************************************)
(* Loading a configuration, commands and scripts: commands are added by    *)
(* the user and reported by the deputies, scripts are added, the observer  *)
(* flag is set, and configurations of up to MaxLoadCmds commands and of    *)
(* the first MaxLoadScripts scripts of ScriptPool are loaded.              *)
(***************************************************************************)
\* the Sheriff after a call that left `out`
Applied(self, out) ==
    [ self EXCEPT !.deputies = out.deputies, !._next_sheriff_id = out.next,
                  !.events = @ \o out.events, !.published = @ \o out.published,
                  !.raised = out.raised ]

\* SheriffScript.from_script_node: the script of the sheriff has the name and
\* the actions of the node
from_script_node(script_node) == ScriptNode(script_node.name, script_node.actions)

\* `for script in self.scripts[:]: self.remove_script(script)`
RECURSIVE RemoveScripts(_, _)
RemoveScripts(self, todo) ==
    IF todo = << >> \/ self.raised # None THEN self
    ELSE RemoveScripts(remove_script(self, Head(todo)), Tail(todo))

\* `for script_node in config_node.scripts.values(): self.add_script(...)`
RECURSIVE AddScripts(_, _)
AddScripts(self, script_nodes) ==
    IF script_nodes = << >> \/ self.raised # None THEN self
    ELSE AddScripts(add_script(self, from_script_node(Head(script_nodes))),
                    Tail(script_nodes))

\* a faulty load_config: the scripts the sheriff has are kept
Sheriff_load_config_KeepsScripts(self, o, config_cmds, config_scripts) ==
    IF self._is_observer THEN [ self EXCEPT !.raised = "ValueError" ]
    ELSE AddScripts(Applied(self, load_config(self.deputies, self._next_sheriff_id,
                                              FALSE, o, config_cmds)),
                    SelectSeq(config_scripts,
                              LAMBDA n : get_script(self.scripts, n.name) = << >>))

\* Sheriff.load_config on a configuration with the commands config_cmds and
\* the scripts config_scripts, each in the order it is visited
Sheriff_load_config(self, o, config_cmds, config_scripts) ==
    IF self._is_observer THEN [ self EXCEPT !.raised = "ValueError" ]
    ELSE
        The({ IF removed.raised # None THEN removed
              ELSE The({
                     IF unscripted.raised # None THEN unscripted
                     ELSE The({ IF added.raised # None THEN added
                                ELSE AddScripts(added, config_scripts)
                                : added \in {
                                    Applied(unscripted,
                                            AddEach(Outcome(unscripted.deputies,
                                                            unscripted._next_sheriff_id,
                                                            << >>, << >>, None),
                                                    FALSE, config_cmds)) } })
                     : unscripted \in { RemoveScripts(removed, removed.scripts) } })
              : removed \in {
                  Applied(self,
                          RemoveEach(Outcome(self.deputies, self._next_sheriff_id,
                                             << >>, << >>, None),
                                     FALSE, o,
                                     AllCommands(self.deputies,
                                                 HostsInOrder(self.deputies, o)))) } })

\* the commands of the configurations: one that respawns on the first host,
\* one that does not on each other host
LoadCmds == { c \in ConfigCmds : c.auto_respawn = ( c.host = LifeHost ) }

\* the scripts of a configuration
LoadScriptSets ==
    { SelectSeq([ i \in 1 .. MaxLoadScripts |-> ScriptPool[i] ],
                LAMBDA s : s.name \in names)
      : names \in SUBSET { ScriptPool[i].name : i \in 1 .. MaxLoadScripts } }

InitLoad ==
    /\ deputies = [ h \in {} |-> NewDeputy ]
    /\ _is_observer = FALSE
    /\ _next_sheriff_id = 1
    /\ now = StartTime
    /\ op = [ name |-> "__init__", host |-> None, ids |-> {} ]
    /\ raised = None
    /\ events = << >>
    /\ published = << >>
    /\ inbound = 0
    /\ steps = 0
    /\ InitExecutor
    /\ probe = [ fn |-> "load_config", cmds |-> << >>, scripts |-> << >> ]

\* Sheriff.add_command
LoadAddCommand ==
    /\ steps < MaxLoadSteps
    /\ \E c \in LoadCmds :
         Become("add_command", c.host,
                Applied(Self, add_command(deputies, _next_sheriff_id, _is_observer,
                                          c.host, c.exec, c.nickname, c.group,
                                          c.auto_respawn)))
    /\ steps' = steps + 1
    /\ UNCHANGED << _is_observer, now, inbound, probe >>

\* a deputy reports a command as running
LoadInfo ==
    /\ steps < MaxLoadSteps
    /\ \E h \in Hosts, i \in 1 .. MaxLoadCmds :
         Become("_on_pmd_info", h,
                OnInfo(Self, [ utime |-> now, host |-> h,
                               cmds |-> << CmdInfo(i, << 7, 0, 0 >>) >> ],
                       now))
    /\ inbound' = inbound + 1
    /\ steps' = steps + 1
    /\ UNCHANGED << _is_observer, now, probe >>

\* Sheriff.add_script
LoadAddScript ==
    /\ steps < MaxLoadSteps
    /\ \E i \in 1 .. MaxLoadScripts :
         Become("add_script", ScriptPool[i].name, add_script(Self, ScriptPool[i]))
    /\ steps' = steps + 1
    /\ UNCHANGED << _is_observer, now, inbound, probe >>

\* Sheriff.set_observer
LoadSetObserver ==
    /\ steps < MaxLoadSteps
    /\ \E b \in BOOLEAN : _is_observer' = b
    /\ op' = [ name |-> "set_observer", host |-> None, ids |-> {} ]
    /\ raised' = None /\ events' = << >> /\ published' = << >> /\ returned' = << >>
    /\ steps' = steps + 1
    /\ UNCHANGED << deputies, _next_sheriff_id, now, inbound, probe, scripts,
                    active_script_context, waiting_on_commands, waiting_for_status,
                    last_script_action_time, timeouts >>

\* Sheriff.load_config
LoadLoadConfig ==
    /\ steps < MaxLoadSteps
    /\ \E o \in HostOrders, cfg \in SeqsUpTo(LoadCmds, MaxLoadCmds),
          scr \in LoadScriptSets :
         /\ Become("load_config", None, Sheriff_load_config(Self, o, cfg, scr))
         /\ probe' = [ probe EXCEPT !.cmds = cfg, !.scripts = scr ]
    /\ steps' = steps + 1
    /\ UNCHANGED << _is_observer, now, inbound >>

NextLoad ==
    \/ LoadAddCommand
    \/ LoadInfo
    \/ LoadAddScript
    \/ LoadSetObserver
    \/ LoadLoadConfig

SpecLoad == InitLoad /\ [][NextLoad]_vars

(***************************************************************************)
(* Waits on cohorts that may be empty.  The sheriff has one deputy, which  *)
(* holds either no command or one running command that is scheduled for    *)
(* removal; the scripts of CohortPool are executed, the pending timeouts   *)
(* run, and the deputy reports the command or, while the executor does not *)
(* wait on it, reports that it holds none.                                 *)
(***************************************************************************)
CohortPool ==
    << ScriptNode("W", << StartStopRestartActionNode("start", "everything", None, "running"),
                          WaitMsActionNode(0) >>),
       ScriptNode("G", << WaitMsActionNode(0),
                          StartStopRestartActionNode("stop", "group", "a", "stopped") >>) >>

\* the command of the deputy: started, reported running, then scheduled for
\* removal
CohortCommand ==
    [ NewCommand EXCEPT !.sheriff_id = 1, !.name = "a", !.nickname = "a", !.group = "a",
                        !.pid = 7, !.desired_runid = 1, !.actual_runid = 1,
                        !.scheduled_for_removal = TRUE ]

InitCohort ==
    /\ deputies \in
         { [ h \in { LifeHost } |-> [ NewDeputy EXCEPT !.last_update_utime = StartTime ] ],
           [ h \in { LifeHost } |->
               [ NewDeputy EXCEPT !.last_update_utime = StartTime,
                                  !.commands = [ k \in { 1 } |-> CohortCommand ] ] ] }
    /\ _is_observer = FALSE
    /\ _next_sheriff_id = 2
    /\ now = StartTime
    /\ op = [ name |-> "__init__", host |-> None, ids |-> {} ]
    /\ raised = None
    /\ events = << >>
    /\ published = << >>
    /\ inbound = 0
    /\ steps = 0
    /\ probe = Idle
    /\ scripts = CohortPool
    /\ active_script_context = << >>
    /\ waiting_on_commands = << >>
    /\ waiting_for_status = None
    /\ last_script_action_time = 0
    /\ timeouts = 0
    /\ returned = << >>

\* Sheriff.execute_script
CohortExecuteScript ==
    /\ steps < MaxCohortSteps
    /\ \E i \in DOMAIN scripts, t2 \in { now, now + 1 } :
         /\ Become("execute_script", scripts[i].name,
                   execute_script(Self, << LifeHost >>, scripts[i], now, t2))
         /\ now' = t2
    /\ steps' = steps + 1
    /\ UNCHANGED << _is_observer, inbound, probe >>

\* a pending timeout runs _execute_next_script_action
CohortRunTimeout ==
    /\ timeouts > 0
    /\ \E t2 \in { now, now + 1 } :
         /\ Become("_execute_next_script_action", None,
                   _execute_next_script_action([ Self EXCEPT !.timeouts = @ - 1 ],
                                               << LifeHost >>, now, t2))
         /\ now' = t2
    /\ UNCHANGED << _is_observer, inbound, probe, steps >>

\* the info messages of the deputy: while the sheriff holds the command, it
\* is reported running or exited; while the executor waits on no command,
\* the deputy may report that it holds no command
CohortInfos ==
    { << CmdInfo(1, << pid, 0, deputies[LifeHost].commands[k].desired_runid >>) >>
        : pid \in { 0, 7 }, k \in DOMAIN deputies[LifeHost].commands }
    \cup ( IF waiting_on_commands = << >> THEN { << >> } ELSE {} )

\* Sheriff._on_pmd_info
CohortInfo ==
    /\ steps < MaxCohortSteps
    /\ \E cmds \in CohortInfos :
         Become("_on_pmd_info", None,
                OnInfo(Self, [ utime |-> now, host |-> LifeHost, cmds |-> cmds ], now))
    /\ inbound' = inbound + 1
    /\ steps' = steps + 1
    /\ UNCHANGED << _is_observer, now, probe >>

NextCohort ==
    \/ CohortExecuteScript
    \/ CohortRunTimeout
    \/ CohortInfo

SpecCohort == InitCohort /\ [][NextCohort]_vars

\* the main loop runs every timeout that is pending
SpecCohortFair ==
    SpecCohort /\ WF_<< timeouts, active_script_context >>(CohortRunTimeout)

(***************************************************************************)
(* Removal of commands under the reports of the deputy.  The operator adds *)
(* commands to one deputy and schedules them for removal, the deputy       *)
(* reports any of the commands that were ever advertised to it (a report   *)
(* may have been composed before or after the deputy saw an order), and    *)
(* the orders are sent periodically.  probe.scheduled keeps the sheriff    *)
(* ids the operator has scheduled for removal and not given to a command   *)
(* added since.                                                            *)
(***************************************************************************)
InitRemoval ==
    /\ deputies = [ h \in {} |-> NewDeputy ]
    /\ _is_observer = FALSE
    /\ _next_sheriff_id = 1
    /\ now = StartTime
    /\ op = [ name |-> "__init__", host |-> None, ids |-> {} ]
    /\ raised = None
    /\ events = << >>
    /\ published = << >>
    /\ inbound = 0
    /\ steps = 0
    /\ InitExecutor
    /\ probe = [ fn |-> "removal", scheduled |-> {} ]

\* Sheriff.add_command
RemovalAddCommand ==
    /\ steps < MaxRemovalSteps
    /\ _next_sheriff_id <= MaxAdds
    /\ Leave("add_command", LifeHost, {},
             add_command(deputies, _next_sheriff_id, _is_observer, LifeHost,
                         "a", "a", "a", FALSE))
    /\ probe' = [ probe EXCEPT !.scheduled =
                    @ \ { events'[i].cmd.sheriff_id : i \in DOMAIN events' } ]
    /\ UNCHANGED << _is_observer, now, executor, inbound >>

\* Sheriff.schedule_command_for_removal
RemovalScheduleCommandForRemoval ==
    /\ steps < MaxRemovalSteps
    /\ \E hk \in Held :
         /\ Leave("schedule_command_for_removal", hk[1], { hk[2] },
                  schedule_command_for_removal(deputies, _next_sheriff_id, _is_observer,
                                               << LifeHost >>, hk[1], hk[2]))
         /\ probe' = [ probe EXCEPT !.scheduled = @ \cup { hk[2] } ]
    /\ UNCHANGED << _is_observer, now, executor, inbound >>

\* the cmds of the info messages of the deputy: each command that was
\* advertised to it at most once, not yet started or running
RemovalInfos ==
    { cmds \in SeqsUpTo({ CmdInfo(i, ob) : i \in 1 .. ( _next_sheriff_id - 1 ),
                                           ob \in { << 0, 0, 0 >>, << 7, 0, 1 >> } },
                        MaxAdds) :
        \A i, j \in DOMAIN cmds : cmds[i].sheriff_id = cmds[j].sheriff_id => i = j }

\* Sheriff._on_pmd_info
RemovalInfo ==
    /\ steps < MaxRemovalSteps
    /\ deputies # << >>
    /\ \E cmds \in RemovalInfos :
         \E r \in { _on_pmd_info(deputies, _next_sheriff_id, now,
                                  [ utime |-> now, host |-> LifeHost, cmds |-> cmds ]) } :
             Leave("_on_pmd_info", LifeHost, r.applied, r.out)
    /\ inbound' = inbound + 1
    /\ UNCHANGED << _is_observer, now, executor, probe >>

\* Sheriff.send_orders, called periodically
RemovalSendOrders ==
    /\ steps < MaxRemovalSteps
    /\ Leave("send_orders", None, {},
             Sent(deputies, _next_sheriff_id, << >>, send_orders(deputies, _is_observer)))
    /\ UNCHANGED << _is_observer, now, executor, inbound, probe >>

NextRemoval ==
    \/ RemovalAddCommand
    \/ RemovalScheduleCommandForRemoval
    \/ RemovalInfo
    \/ RemovalSendOrders

SpecRemoval == InitRemoval /\ [][NextRemoval]_vars

(***************************************************************************)
(* Properties                                                              *)
(***************************************************************************)
\* every command object in a table, as << host, key >>
Commands == Held

CommandAt(hk) == deputies[hk[1]].commands[hk[2]]

\* C1: no two distinct command objects held in the deputies' tables (same
\* deputy or different deputies) have the same sheriff_id.
C1_SheriffIdsUnique ==
    \A x \in Commands, y \in Commands :
        x # y => CommandAt(x).sheriff_id # CommandAt(y).sheriff_id

\* C1: an operator-added command and an info-created command coexist
C1_TwoCommands ==
    \E x \in Commands, y \in Commands : x # y

\* C2: for every deputy and every key k of its table, the command stored
\* under k has sheriff_id = k, and k is not 0.
C2_KeyMatchesRecord ==
    \A hk \in Commands : CommandAt(hk).sheriff_id = hk[2] /\ hk[2] # 0

\* C2: an inbound message that reports sheriff_id 0 has been handled after it
\* had made the deputy create another command
C2_ZeroIdReported ==
    /\ op.name \in { "_on_pmd_info", "_on_pmd_orders" }
    /\ 0 \in op.ids
    /\ raised = "AssertionError"
    /\ Commands # {}

\* the signals that come from a status-change tuple whose new status is not None
FannedOut ==
    { i \in DOMAIN events :
        /\ events[i].sig \in { "command-added", "command-status-changed" }
        /\ events[i].new # None }

\* C3: for every status-change tuple (c, old, new) with new not None that is
\* fanned out, new is c.status() at the moment the signal is emitted.
C3_NewIsStatusAtEmission ==
    \A i \in FannedOut : events[i].new = status(events[i].cmd)

\* the command under key k of deputy h is the same object before and after
\* the step: a new object enters a table together with a command-added signal
SameObject(h, k) ==
    /\ h \in DOMAIN deputies /\ k \in DOMAIN deputies[h].commands
    /\ h \in DOMAIN deputies' /\ k \in DOMAIN deputies'[h].commands
    /\ ~ \E i \in DOMAIN events' :
           /\ events'[i].sig = "command-added"
           /\ events'[i].host = h
           /\ events'[i].cmd.sheriff_id = k

\* the step is a start / restart bump of (h, k) that wraps desired_runid to 1
WrapStep(h, k) ==
    /\ op'.name \in { "start_command", "restart_command" }
    /\ op'.host = h /\ k \in op'.ids
    /\ ExceedsRunidWrap(deputies[h].commands[k].desired_runid + 1)
    /\ deputies'[h].commands[k].desired_runid = 1

\* C4 (as stated): desired_runid of a command never decreases from one state
\* to the next, except in the step where a start / restart bump wraps it to 1.
C4_RunidNeverDecreases ==
    [][ \A h \in Hosts, k \in 0 .. MaxMsgId + MaxAdds :
          SameObject(h, k) =>
            \/ deputies'[h].commands[k].desired_runid
                 >= deputies[h].commands[k].desired_runid
            \/ WrapStep(h, k) ]_vars

\* C4 (weakened): desired_runid of a command never decreases from one state
\* to the next, except in the step where a start / restart bump wraps
\* it to 1, and except when an inbound orders message is applied in observer
\* mode, which overwrites desired_runid with the peer's value.
C4_RunidNeverDecreasesOutsideMirroring ==
    [][ \A h \in Hosts, k \in 0 .. MaxMsgId + MaxAdds :
          SameObject(h, k) =>
            \/ deputies'[h].commands[k].desired_runid
                 >= deputies[h].commands[k].desired_runid
            \/ WrapStep(h, k)
            \/ op'.name = "_on_pmd_orders" /\ _is_observer /\ op'.host = h
               /\ k \in op'.ids ]_vars

\* C4: a restart has bumped desired_runid of a command that info messages
\* keep reporting
C4_Restarted ==
    /\ op.name = "restart_command" /\ raised = None
    /\ \E k \in op.ids : /\ CommandAt(<< op.host, k >>).desired_runid = MaxRunid
                         /\ CommandAt(<< op.host, k >>).pid >= 0

\* the local mutators of the sheriff
Mutators ==
    { "add_command", "start_command", "stop_command", "restart_command",
      "set_command_group", "set_command_name", "set_command_nickname",
      "set_auto_respawn", "schedule_command_for_removal",
      "move_command_to_deputy", "load_config" }

\* C5: in observer mode every local mutator fails with the mode error and
\* leaves every deputy and command field unchanged.
C5_MutatorsRefusedInObserverMode ==
    [][ _is_observer /\ op'.name \in Mutators /\ steps' = steps + 1 =>
          raised' = "ValueError" /\ deputies' = deputies ]_vars

\* the orders messages the last handler published
PublishedMessages == UNION { published[i] : i \in DOMAIN published }

C7_OldInfoDropped ==
    [][ ~_is_observer /\ op'.name = "_on_pmd_info:old" /\ steps' = steps + 1 =>
          deputies' = deputies /\ events' = << >> ]_vars

\* C8: outside observer mode an inbound PMD_ORDERS message changes nothing:
\* no deputy or command is created or changed and no signal is emitted.
C8_OrdersIgnoredOutsideObserverMode ==
    [][ ~_is_observer /\ op'.name = "_on_pmd_orders" /\ steps' = steps + 1 =>
          /\ deputies' = deputies
          /\ _next_sheriff_id' = _next_sheriff_id
          /\ events' = << >> /\ published' = << >> /\ raised' = None ]_vars

\* C8: orders that list a command arrived outside observer mode while the
\* sheriff held commands
C8_OrdersArrived ==
    /\ ~_is_observer /\ op.name = "_on_pmd_orders" /\ op.ids # {}
    /\ Commands # {}

\* the derived-status table of the specification, read top to bottom; "none"
\* where no row applies
StatusTable(c) ==
    LET differ   == c.desired_runid # c.actual_runid
        removing == c.scheduled_for_removal
    IN  IF differ /\ ~c.force_quit /\ c.pid = 0 THEN "TRYING_TO_START"
        ELSE IF differ /\ ~c.force_quit /\ c.pid > 0 THEN "RESTARTING"
        ELSE IF ~differ /\ c.pid > 0 /\ ~c.force_quit /\ ~removing THEN "RUNNING"
        ELSE IF ~differ /\ c.pid > 0 /\ (c.force_quit \/ removing) THEN "TRYING_TO_STOP"
        ELSE IF ~differ /\ c.pid = 0 /\ removing THEN "REMOVING"
        ELSE IF ~differ /\ c.pid = 0 /\ c.exit_code = 0 THEN "STOPPED_OK"
        ELSE IF ~differ /\ c.pid = 0 /\ c.force_quit
                /\ WIFSIGNALED(c.exit_code)
                /\ WTERMSIG(c.exit_code) \in { SIGTERM, SIGINT, SIGKILL }
             THEN "STOPPED_OK"
        ELSE IF ~differ /\ c.pid = 0 THEN "STOPPED_ERROR"
        ELSE IF differ /\ c.force_quit THEN "UNKNOWN"
        ELSE "none"

\* the table with its Restarting row read as pid # 0 and the pid = 0 rows of
\* desired = actual read as pid <= 0
StatusTableAmended(c) ==
    LET differ   == c.desired_runid # c.actual_runid
        removing == c.scheduled_for_removal
    IN  IF differ /\ ~c.force_quit /\ c.pid = 0 THEN "TRYING_TO_START"
        ELSE IF differ /\ ~c.force_quit /\ c.pid # 0 THEN "RESTARTING"
        ELSE IF ~differ /\ c.pid > 0 /\ ~c.force_quit /\ ~removing THEN "RUNNING"
        ELSE IF ~differ /\ c.pid > 0 /\ (c.force_quit \/ removing) THEN "TRYING_TO_STOP"
        ELSE IF ~differ /\ c.pid <= 0 /\ removing THEN "REMOVING"
        ELSE IF ~differ /\ c.pid <= 0 /\ c.exit_code = 0 THEN "STOPPED_OK"
        ELSE IF ~differ /\ c.pid <= 0 /\ c.force_quit
                /\ WIFSIGNALED(c.exit_code)
                /\ WTERMSIG(c.exit_code) \in { SIGTERM, SIGINT, SIGKILL }
             THEN "STOPPED_OK"
        ELSE IF ~differ /\ c.pid <= 0 THEN "STOPPED_ERROR"
        ELSE IF differ /\ c.force_quit THEN "UNKNOWN"
        ELSE "none"

C11_NaturalCompletion ==
    probe.fn = "lifecycle" =>
        /\ probe.stage = 1 => probe.seen = << >>
        /\ probe.stage = 2 => probe.seen = << TRYING_TO_START >>
        /\ probe.stage = 3 => probe.seen = << TRYING_TO_START, RUNNING >>
        /\ probe.stage = 4 =>
             /\ probe.seen = << TRYING_TO_START, RUNNING, STOPPED_OK >>
             /\ deputies[LifeHost].commands[1].force_quit

\* C11: the walk was completed
C11_Completed ==
    /\ probe.fn = "lifecycle" /\ probe.stage = 4
    /\ op.name = "_on_pmd_info"
    /\ deputies[LifeHost].commands[1].pid = 0


\* the step is the call `name` on the command hk, and it returned
Called(name, hk) ==
    /\ op'.name = name /\ op'.host = hk[1] /\ hk[2] \in op'.ids
    /\ raised' = None
    /\ hk[1] \in DOMAIN deputies' /\ hk[2] \in DOMAIN deputies'[hk[1]].commands

\* the step emits command-status-changed from status old to status new
StatusChanged(old, new) ==
    \E i \in DOMAIN events' :
        /\ events'[i].sig = "command-status-changed"
        /\ events'[i].old = old /\ events'[i].new = new

\* does exit_code encode a termination by SIGTERM, SIGINT or SIGKILL
KilledAsAsked(exit_code) ==
    WIFSIGNALED(exit_code) /\ WTERMSIG(exit_code) \in { SIGTERM, SIGINT, SIGKILL }

\* C12: stop_command on a command whose status is Running sets force_quit and
\* changes the status to TryingToStop, emitting command-status-changed; a
\* report with pid = 0 (of the same run) for a command that is being stopped
\* changes the status to StoppedOk when exit_code encodes a termination by
\* SIGTERM, SIGINT or SIGKILL, and to StoppedError when it encodes another
\* signal or a non-zero exit.
C12_Kill ==
    [][ \A hk \in Held : \A c \in { CommandAt(hk) } :
          /\ ( Called("stop_command", hk) /\ statusBranch(c) = "RUNNING" ) =>
               \A c2 \in { deputies'[hk[1]].commands[hk[2]] } :
                 /\ c2.force_quit
                 /\ statusBranch(c2) = "TRYING_TO_STOP"
                 /\ c2 = [ c EXCEPT !.force_quit = TRUE ]
                 /\ StatusChanged(RUNNING, TRYING_TO_STOP)
          /\ ( /\ Called("_on_pmd_info", hk)
               /\ statusBranch(c) = "TRYING_TO_STOP" /\ c.force_quit
               /\ ~c.scheduled_for_removal
               /\ deputies'[hk[1]].commands[hk[2]].pid = 0
               /\ deputies'[hk[1]].commands[hk[2]].actual_runid = c.actual_runid
               /\ deputies'[hk[1]].commands[hk[2]].exit_code # 0 ) =>
               \A c2 \in { deputies'[hk[1]].commands[hk[2]] } :
                 IF KilledAsAsked(c2.exit_code)
                 THEN /\ statusBranch(c2) = "STOPPED_OK"
                      /\ StatusChanged(TRYING_TO_STOP, STOPPED_OK)
                 ELSE /\ statusBranch(c2) = "STOPPED_ERROR"
                      /\ StatusChanged(TRYING_TO_STOP, STOPPED_ERROR) ]_vars

C12_KilledBySigterm ==
    /\ probe.fn = "lifecycle" /\ probe.stage = 6
    /\ op.name = "_on_pmd_info"
    /\ deputies[LifeHost].commands[1].exit_code = SIGTERM
    /\ probe.seen = << TRYING_TO_START, RUNNING, TRYING_TO_STOP, STOPPED_OK >>

\* C13: a start_command that returns leaves a command with pid > 0 and
\* force_quit false as it was (every field) and emits no
\* command-status-changed; on any other command it increases desired_runid by
\* one (or wraps it to 1) and clears force_quit, changing nothing else; a
\* restart_command that returns does the latter on every command.
C13_StartAndRestart ==
    [][ \A hk \in Held : \A c \in { CommandAt(hk) } :
          /\ Called("start_command", hk) =>
               IF c.pid > 0 /\ ~c.force_quit
               THEN /\ deputies'[hk[1]].commands[hk[2]] = c
                    /\ ~ \E i \in DOMAIN events' :
                           events'[i].sig = "command-status-changed"
               ELSE deputies'[hk[1]].commands[hk[2]] =
                      [ c EXCEPT !.force_quit = FALSE,
                                 !.desired_runid =
                                    IF ExceedsRunidWrap(c.desired_runid + 1)
                                    THEN 1 ELSE c.desired_runid + 1 ]
          /\ Called("restart_command", hk) =>
               deputies'[hk[1]].commands[hk[2]] =
                 [ c EXCEPT !.force_quit = FALSE,
                            !.desired_runid =
                               IF ExceedsRunidWrap(c.desired_runid + 1)
                               THEN 1 ELSE c.desired_runid + 1 ] ]_vars

C13_StartedWhileRunning ==
    /\ op.name = "start_command" /\ raised = None
    /\ \E hk \in Held :
         /\ op.host = hk[1] /\ hk[2] \in op.ids
         /\ CommandAt(hk).pid > 0 /\ ~CommandAt(hk).force_quit
         /\ events = << >>


\* the j-th id after n, wrapping past SheriffIdWrap to 1
IdAfter(n, j) == ((n - 1 + j) % SheriffIdWrap) + 1

\* C14: the command add_command returns has a sheriff_id in 1 .. 2^30 that
\* was not a key of any deputy's table just before the call, whatever the
\* tables held (the cursor value included); the allocation loop fails only
\* when every id it probes, the consecutive ids from the cursor on (wrapping
\* past 2^30 to 1), is in use, and otherwise returns the first of them that
\* is free.
C14_AllocatedIdIsFresh ==
    [][ /\ ( op'.name = "add_command" /\ raised' = None ) =>
             /\ Len(events') = 1 /\ events'[1].sig = "command-added"
             /\ \E id \in { events'[1].cmd.sheriff_id } :
                  /\ id \in 1 .. SheriffIdWrap
                  /\ ~Collision(deputies, id)
                  /\ id \in DOMAIN deputies'[op'.host].commands
                  /\ deputies'[op'.host].commands[id] = events'[1].cmd
        /\ op'.name = "add_command" => raised' = None
        /\ op'.name = "__get_free_sheriff_id" =>
             /\ raised' # None <=>
                  \A j \in 0 .. probe.probes - 1 :
                     Collision(deputies, IdAfter(_next_sheriff_id, j))
             /\ raised' = None =>
                  /\ probe'.result \in 1 .. SheriffIdWrap
                  /\ ~Collision(deputies, probe'.result)
                  /\ \E j \in 0 .. probe.probes - 1 :
                       /\ probe'.result = IdAfter(_next_sheriff_id, j)
                       /\ \A i \in 0 .. j - 1 :
                            Collision(deputies, IdAfter(_next_sheriff_id, i))
                       /\ _next_sheriff_id' = IdAfter(_next_sheriff_id, j + 1) ]_vars

\* add_command found the cursor value, the last id of the range, in use,
\* wrapped, found 1 in use and returned 2
C14_CursorInUse ==
    /\ op.name = "add_command" /\ raised = None
    /\ op.ids = { SheriffIdWrap }
    /\ Len(events) = 1
    /\ events[1].cmd.sheriff_id = 2
    /\ _next_sheriff_id = 3
    /\ Collision(deputies, SheriffIdWrap) /\ Collision(deputies, 1)

\* every probed id was in use
C14_Exhausted ==
    /\ op.name = "__get_free_sheriff_id"
    /\ probe.fn = "__get_free_sheriff_id" /\ probe.raised = "RuntimeError"
    /\ probe.probes = MaxAllocProbes


\* C15: every orders message send_orders has just built for a deputy lists
\* exactly the deputy's commands that are not scheduled_for_removal, each
\* once, with name, nickname, sheriff_id, desired_runid, force_quit, group
\* and auto_respawn of the command; ncmds is the number of command entries,
\* nvars the number of variable entries, and the variable entries are the
\* deputy's variables.
C15_OrdersMatchDeputy ==
    ( op.name = "send_orders" /\ raised = None ) =>
        /\ { m.host : m \in PublishedMessages } = DOMAIN deputies
        /\ \A m \in PublishedMessages : \A dep \in { deputies[m.host] } :
             /\ \A k \in DOMAIN dep.commands :
                  Cardinality({ i \in DOMAIN m.cmds :
                                   m.cmds[i].sheriff_id = dep.commands[k].sheriff_id })
                    = IF dep.commands[k].scheduled_for_removal THEN 0 ELSE 1
             /\ \A i \in DOMAIN m.cmds :
                  \E k \in DOMAIN dep.commands :
                     /\ ~dep.commands[k].scheduled_for_removal
                     /\ m.cmds[i].name = dep.commands[k].name
                     /\ m.cmds[i].nickname = dep.commands[k].nickname
                     /\ m.cmds[i].sheriff_id = dep.commands[k].sheriff_id
                     /\ m.cmds[i].desired_runid = dep.commands[k].desired_runid
                     /\ m.cmds[i].force_quit = dep.commands[k].force_quit
                     /\ m.cmds[i].group = dep.commands[k].group
                     /\ m.cmds[i].auto_respawn = dep.commands[k].auto_respawn
             /\ m.ncmds = Len(m.cmds)
             /\ m.nvars = Len(m.varnames) /\ m.nvars = Len(m.varvals)
             /\ { m.varnames[i] : i \in DOMAIN m.varnames } = DOMAIN dep.variables
             /\ m.nvars = Cardinality(DOMAIN dep.variables)
             /\ \A i \in DOMAIN m.varnames : m.varvals[i] = dep.variables[m.varnames[i]]

\* orders were built for a deputy with a command to keep, a command being
\* removed and a variable
C15_RemovedLeftOut ==
    /\ op.name = "send_orders" /\ raised = None
    /\ \E m \in PublishedMessages :
         /\ m.ncmds = 1 /\ m.nvars = 1
         /\ Cardinality(DOMAIN deputies[m.host].commands) = 2

\* the handler of this step has emitted script-action-executing
Dispatching ==
    \E i \in DOMAIN events' : events'[i].sig = "script-action-executing"

\* every command the executor waits on has a status waiting_for_status accepts
CohortAcceptable ==
    \A i \in DOMAIN waiting_on_commands :
        Acceptable(waiting_for_status,
                   status(deputies[waiting_on_commands[i][1]]
                              .commands[waiting_on_commands[i][2]]))

\* C16: while the executor waits for its cohort to be running (resp.
\* stopped), a run of _execute_next_script_action dispatches no action of
\* the script: an action is dispatched only after an evaluation of the wait
\* that found every command of the cohort acceptable has cleared the wait.
C16_NoDispatchWhileWaiting ==
    [][ ( op'.name = "_execute_next_script_action" /\ Dispatching ) =>
            waiting_on_commands = << >> ]_vars

\* the executor waits on a non-empty cohort
Waiting == waiting_on_commands # << >>

\* C17: whenever the executor waits on a non-empty cohort whose commands all
\* have an acceptable status, then eventually the wait is cleared (and the
\* next action scheduled), unless a command of the cohort leaves the
\* acceptable statuses first.
C17_WaitEventuallyCleared ==
    ( Waiting /\ CohortAcceptable ) ~> ( ~Waiting \/ ~CohortAcceptable )

\* C18 (as stated): with A calling only B and B calling only A,
\* check_script_for_errors(A) returns the one-element list
\* ["Infinite loop: script A eventually calls itself"].
C18_CycleReportedBare ==
    ( op.name = "check_script_for_errors" /\ op.host = "A" ) =>
        returned = << "Infinite loop: script A eventually calls itself" >>

\* C18 (with the call path): with A calling only B and B calling only A,
\* check_script_for_errors(A) returns a one-element list, the check not going
\* down into the calls of A a second time; its message is the infinite-loop
\* message of A under the call paths the two levels of the recursion put in
\* front of it.
C18_CycleReportedWithPath ==
    ( op.name = "check_script_for_errors" /\ op.host = "A" ) =>
        returned =
          << "A->B - A->B->A - Infinite loop: script A eventually calls itself" >>

\* check_script_for_errors(A) has returned, A and B calling each other
C18_CycleChecked ==
    /\ op.name = "check_script_for_errors" /\ op.host = "A"
    /\ Len(returned) = 1
    /\ get_script(scripts, "A") # << >> /\ get_script(scripts, "B") # << >>

\* the handler of this step has emitted the signal sig
Emitting(sig) == \E i \in DOMAIN events' : events'[i].sig = sig

\* C19: execute_script(s) on a script for which check_script_for_errors finds
\* errors returns them and does not start s: no script-started and no
\* script-action-executing is emitted, no command and no orders change, no
\* timeout is registered, and no script is active afterwards; a script that
\* was active before the call has been aborted, script-finished being
\* emitted for it and nothing else.
C19_InvalidScriptNotStarted ==
    [][ op'.name = "execute_script" =>
          \A errors \in { check_script_for_errors(scripts, deputies, << LifeHost >>,
                                                  get_script(scripts, op'.host)[1],
                                                  << >>) } :
            /\ returned' = errors
            /\ errors # << >> =>
                 /\ raised' = None
                 /\ ~Emitting("script-started")
                 /\ ~Emitting("script-action-executing")
                 /\ deputies' = deputies
                 /\ published' = << >>
                 /\ timeouts' = timeouts
                 /\ active_script_context' = << >>
                 /\ waiting_on_commands' = << >>
                 /\ IF active_script_context = << >> THEN events' = << >>
                    ELSE /\ Len(events') = 1
                         /\ events'[1].sig = "script-finished"
                         /\ events'[1].old = active_script_context[1].script.name ]_vars

\* execute_script has returned errors while another script was active
C19_RefusedWhileActive ==
    /\ op.name = "execute_script" /\ returned # << >>
    /\ Len(events) = 1 /\ events[1].sig = "script-finished"
    /\ events[1].old # op.host
    /\ active_script_context = << >>

\* C20: no run of execute_script past its validation and no later run of
\* _execute_next_script_action raises.
C20_DispatchNeverRaises ==
    op.name \in { "execute_script", "_execute_next_script_action" } => raised = None


\* a timeout has dispatched an action of a validated script after the sheriff
\* was switched to observer mode, and the command call has raised
C20_RaisedInObserverMode ==
    /\ op.name = "_execute_next_script_action" /\ raised = "ValueError"
    /\ _is_observer
    /\ active_script_context # << >>

\* C21: parsing the text the serializer wrote for a config tree gives back
\* the same tree, also when names and values hold double quotes,
\* backslashes or newlines
C21_RoundTrip ==
    ( probe.fn = "config" /\ probe.stage = 2 )
        => ( probe.result.raised = None /\ probe.result.node = probe.cfg )

\* the command-removed signals the step emits for command id of deputy h
RemovedSignals(h, id) ==
    { i \in DOMAIN events' :
        /\ events'[i].sig = "command-removed"
        /\ events'[i].host = h
        /\ events'[i].cmd.sheriff_id = id }

\* C22: schedule_command_for_removal deletes the command at once, emitting
\* command-removed, when its deputy has never reported (last_update_utime
\* is 0); otherwise it only sets scheduled_for_removal.  An info message of
\* the deputy, processed to its end, deletes exactly the commands that are
\* scheduled for removal and that it does not list, each with the triple
\* (cmd, old status, None) and one command-removed; a message that lists a
\* command never deletes it.
C22_RemovalProtocol ==
    [][ \A hk \in Held : \A c \in { CommandAt(hk) } :
          /\ ( /\ op'.name = "schedule_command_for_removal"
               /\ op'.host = hk[1] /\ hk[2] \in op'.ids /\ raised' = None ) =>
               IF deputies[hk[1]].last_update_utime = 0
               THEN /\ hk[2] \notin DOMAIN deputies'[hk[1]].commands
                    /\ Len(events') = 1
                    /\ RemovedSignals(hk[1], hk[2]) = { 1 }
                    /\ events'[1].old = status(c) /\ events'[1].new = None
               ELSE /\ hk[2] \in DOMAIN deputies'[hk[1]].commands
                    /\ deputies'[hk[1]].commands[hk[2]] = [ c EXCEPT !.scheduled_for_removal = TRUE ]
                    /\ RemovedSignals(hk[1], hk[2]) = {}
          /\ ( /\ op'.name \in { "_on_pmd_info", "_on_pmd_info:old" }
               /\ op'.host = hk[1] /\ raised' = None ) =>
               IF c.scheduled_for_removal /\ hk[2] \notin op'.ids
               THEN /\ hk[2] \notin DOMAIN deputies'[hk[1]].commands
                    /\ Cardinality(RemovedSignals(hk[1], hk[2])) = 1
                    /\ \A i \in RemovedSignals(hk[1], hk[2]) :
                         /\ events'[i].old = status(c) /\ events'[i].new = None
                         /\ events'[i].cmd = c
               ELSE /\ hk[2] \in DOMAIN deputies'[hk[1]].commands
                    /\ RemovedSignals(hk[1], hk[2]) = {} ]_vars

\* C22: an info message has just deleted a command that was scheduled for
\* removal while its deputy had already reported
C22_RemovedByInfo ==
    /\ op.name = "_on_pmd_info" /\ raised = None
    /\ \E i \in DOMAIN events :
         /\ events[i].sig = "command-removed"
         /\ events[i].cmd.scheduled_for_removal
         /\ events[i].cmd.sheriff_id \notin op.ids

\* the six fields of a command that a peer's order carries
Mirrors(c, cmd_order) ==
    /\ c.name = cmd_order.name
    /\ c.nickname = cmd_order.nickname
    /\ c.group = cmd_order.group
    /\ c.desired_runid = cmd_order.desired_runid
    /\ c.force_quit = cmd_order.force_quit
    /\ c.auto_respawn = cmd_order.auto_respawn

\* C23: in observer mode, after a peer's orders for a deputy are applied,
\* every command the orders list exists in the deputy's table with the
\* peer's name, nickname, group, desired_runid, force_quit and auto_respawn,
\* whether it existed before or not, and every other command of the deputy
\* is scheduled for removal
C23_OrdersMirrored ==
    ( probe.fn = "_on_pmd_orders" /\ _is_observer /\ raised = None ) =>
        /\ probe.host \in DOMAIN deputies
        /\ \A i \in DOMAIN probe.cmds :
             /\ probe.cmds[i].sheriff_id \in DOMAIN deputies[probe.host].commands
             /\ Mirrors(deputies[probe.host].commands[probe.cmds[i].sheriff_id], probe.cmds[i])
        /\ \A k \in DOMAIN deputies[probe.host].commands :
             k \notin UpdatedIds(probe.cmds) => deputies[probe.host].commands[k].scheduled_for_removal

\* the calls that change a command and end with send_orders
Broadcasters ==
    { "add_command", "start_command", "stop_command", "restart_command", "schedule_command_for_removal" }

\* the orders of every known deputy, built from the deputies as they are
OrdersNow == { _make_orders_message(h, deputies[h]) : h \in DOMAIN deputies }

\* C24: a call of add_command, start_command, stop_command, restart_command
\* or schedule_command_for_removal outside observer mode emits its events
\* and then publishes one orders message for every known deputy: the
\* broadcast is the last effect of the call, the orders are those of the
\* state the call leaves, and each event shows the command as the call
\* left it
C24_ChangeThenEventsThenOrders ==
    ( probe.fn = "effects" /\ op.name \in Broadcasters /\ raised = None ) =>
        /\ Len(probe.log) = Len(events) + 1
        /\ \A i \in DOMAIN events : probe.log[i] = Emission(events[i])
        /\ probe.log[Len(probe.log)] = Publication(OrdersNow)
        /\ published = << OrdersNow >>
        /\ Cardinality(OrdersNow) = Cardinality(DOMAIN deputies)
        /\ \A i \in DOMAIN events :
             IF events[i].sig = "command-removed"
             THEN \A h \in DOMAIN deputies : events[i].cmd.sheriff_id \notin DOMAIN deputies[h].commands
             ELSE \E hk \in Held : CommandAt(hk) = events[i].cmd

\* C24: a call changed the status of a command, emitted the change and
\* broadcast the orders to two deputies
C24_ChangedAndBroadcast ==
    /\ probe.fn = "effects" /\ op.name \in { "start_command", "stop_command" } /\ raised = None
    /\ Len(events) = 1 /\ Len(probe.log) = 2
    /\ Cardinality(DOMAIN deputies) = 2

\* the timeout that runs in this step was registered in an execution that
\* is not the active one any more
StaleTimeoutRuns ==
    /\ op'.name = "_execute_next_script_action"
    /\ probe'.fired # 0
    /\ ( active_script_context = << >> \/ probe'.fired # probe.run )

\* C25: a timeout registered in one execution of a script never dispatches
\* an action of another: when it runs after its execution was aborted or
\* replaced by a later execute_script it does nothing, so that no wait of
\* the replacing script is cut short
C25_StaleTimeoutDoesNothing ==
    [][ StaleTimeoutRuns =>
          /\ events' = << >>
          /\ active_script_context' = active_script_context
          /\ waiting_on_commands' = waiting_on_commands
          /\ waiting_for_status' = waiting_for_status
          /\ deputies' = deputies ]_vars

\* the depth-first inlining of a list of actions: a run_script is replaced by
\* the inlining of the called script's actions
RECURSIVE Inlined(_, _)
Inlined(scr, actions) ==
    IF actions = << >> THEN << >>
    ELSE ( IF Head(actions).action_type = "run_script"
           THEN Inlined(scr, get_script(scr, Head(actions).script_name)[1].actions)
           ELSE << Head(actions) >> ) \o Inlined(scr, Tail(actions))

\* C26: for a validated script the actions given to the dispatcher, in order,
\* are the depth-first inlining of the script: at every moment of the
\* execution a prefix of it, none of them a run_script, the execution going
\* on while a timeout is pending, and the whole of it once get_next_action
\* has returned none and the execution is finished
C26_DepthFirstInlining ==
    ( probe.fn = "calls" /\ probe.root # 0 /\ probe.errors = << >> ) =>
        /\ raised = None
        /\ \A k \in DOMAIN probe.seen : probe.seen[k].action_type # "run_script"
        /\ Len(probe.seen) <= Len(Inlined(scripts, scripts[probe.root].actions))
        /\ probe.seen = SubSeq(Inlined(scripts, scripts[probe.root].actions),
                               1, Len(probe.seen))
        /\ ( active_script_context # << >> => timeouts = 1 )
        /\ ( active_script_context = << >> =>
               /\ timeouts = 0
               /\ probe.seen = Inlined(scripts, scripts[probe.root].actions) )

\* P runs Q and then waits, Q waits and then runs R, R waits: the execution of
\* P is finished, having waited for Q, R and P in this order
C26_NestedRunFinished ==
    /\ probe.fn = "calls"
    /\ probe.root = 1
    /\ active_script_context = << >>
    /\ scripts[1].actions = << RunScriptActionNode("Q"), WaitMsActionNode(1) >>
    /\ scripts[2].actions = << WaitMsActionNode(2), RunScriptActionNode("R") >>
    /\ probe.seen = << WaitMsActionNode(2), WaitMsActionNode(3), WaitMsActionNode(1) >>

\* the names of the scripts the script called name runs
CalledBy(scr, name) ==
    IF get_script(scr, name) = << >> THEN {}
    ELSE { get_script(scr, name)[1].actions[k].script_name
           : k \in { j \in DOMAIN get_script(scr, name)[1].actions :
                       get_script(scr, name)[1].actions[j].action_type = "run_script" } }

\* names and what is called from them in at most n steps
RECURSIVE CallClosure(_, _, _)
CallClosure(scr, names, n) ==
    IF n = 0 THEN names
    ELSE CallClosure(scr, names \cup UNION { CalledBy(scr, x) : x \in names }, n - 1)

\* the call graph reachable from the script called root has no cycle
Acyclic(scr, root) ==
    \A n \in CallClosure(scr, { root }, Len(scr) + 1) :
        n \notin CallClosure(scr, CalledBy(scr, n), Len(scr) + 1)

\* every script called from the script called root is in the table
CalleesExist(scr, root) ==
    \A n \in CallClosure(scr, { root }, Len(scr) + 1) : get_script(scr, n) # << >>

\* C27: check_script_for_errors returns for every table of scripts, whatever
\* the run_script actions refer to; it returns the empty list only if the call
\* graph reachable from the script is acyclic and every called script is in
\* the table; and the chain of contexts of an execution is never longer than
\* the table
C27_ValidatedCallsAreBounded ==
    ( probe.fn = "calls" /\ probe.root # 0 ) =>
        /\ ( probe.errors = << >> =>
               /\ Acyclic(scripts, scripts[probe.root].name)
               /\ CalleesExist(scripts, scripts[probe.root].name) )
        /\ ( probe.errors # << >> => active_script_context = << >> )
        /\ Len(active_script_context) <= Len(scripts)

\* a validated script whose execution is as many contexts deep as the table
\* has scripts
C27_DeepestNesting ==
    /\ probe.fn = "calls"
    /\ probe.root # 0
    /\ probe.errors = << >>
    /\ Len(active_script_context) = Len(scripts)

\* the script that is executed: the script of the active context
Running(ctx) == IF ctx = << >> THEN None ELSE ctx[1].script.name

\* the script that is executed after the signals evs, when the script called
\* open was executed before them: a script-started needs no script to be
\* executed, a script-finished needs its own script to be the one executed
RECURSIVE Lifecycle(_, _)
Lifecycle(evs, open) ==
    IF evs = << >> THEN open
    ELSE IF Head(evs).sig = "script-started" THEN
        IF open = None THEN Lifecycle(Tail(evs), Head(evs).old) ELSE "unpaired"
    ELSE IF Head(evs).sig = "script-finished" THEN
        IF open = Head(evs).old THEN Lifecycle(Tail(evs), None) ELSE "unpaired"
    ELSE Lifecycle(Tail(evs), open)

\* C28: the script-started and script-finished signals are paired: the signals
\* of every call, in order, finish the script that was being executed before
\* another is started, finish no script twice and none that was not started,
\* and leave started the script of the active context, whether the execution
\* ends with its last action, by abort_script or by another execute_script;
\* and whenever a script is executed, _finish_script_execution leaves no
\* active context, nothing waited on and no status waited for, and then emits
\* script-finished for that script
C28_LifecyclePaired ==
    [][ /\ Lifecycle(events', Running(active_script_context))
             = Running(active_script_context')
        /\ active_script_context # << >> =>
             /\ _finish_script_execution(Self).active_script_context = << >>
             /\ _finish_script_execution(Self).waiting_on_commands = << >>
             /\ _finish_script_execution(Self).waiting_for_status = None
             /\ _finish_script_execution(Self).events
                  = << Signal("script-finished", None, None,
                              Running(active_script_context), None) >> ]_vars

\* execute_script has replaced the script F by the script S: it has emitted
\* script-finished for F and then script-started for S
C28_Replaced ==
    /\ op.name = "execute_script"
    /\ Len(events) >= 2
    /\ events[1].sig = "script-finished"
    /\ events[1].old = "F"
    /\ events[2].sig = "script-started"
    /\ events[2].old = "S"
    /\ active_script_context # << >>

\* _on_pmd_info has found a command in a new status and has called
\* _check_wait_action_status
WaitEvaluated ==
    /\ op'.name = "_on_pmd_info"
    /\ \E i \in DOMAIN events' : events'[i].sig = "command-status-changed"

\* C29: when the wait of the executor is evaluated fewer than 100 milliseconds
\* after last_script_action_time (both times in microseconds), the evaluation
\* returns early: the commands waited on and the status waited for stay, and
\* no timeout is registered for the next action, whatever the statuses of the
\* commands
C29_ThrottledWithin100ms ==
    [][ ( /\ WaitEvaluated
          /\ waiting_on_commands # << >>
          /\ 1000 * ( now - last_script_action_time ) < 100 * UsecPerSec ) =>
            /\ waiting_on_commands' = waiting_on_commands
            /\ waiting_for_status' = waiting_for_status
            /\ timeouts' = timeouts ]_vars

\* w <= 2^31 - 1: w fits the signed 32 bit field of the orders message
FitsInt32(w) == w.q < 2

\* 1 <= w <= 2^31
WithinRunidRange(w) ==
    /\ w.q > 0 \/ w.r >= 1
    /\ w.q < 2 \/ ( w.q = 2 /\ w.r = 0 )

\* C30: a start or restart bump that would take desired_runid above 2^31 sets
\* it to 1; so a desired_runid that is 0 (never started) or within 1 .. 2^31
\* is within 1 .. 2^31 after a start or restart request has bumped it, and the
\* desired_runid written into the orders message the request sends fits the
\* signed 32 bit field
C30_RunidWrapsAtTwoTo31 ==
    [][ ( /\ probe'.fn = "runid"
          /\ \/ probe.cmd.desired_runid = Wide(0, 0)
             \/ WithinRunidRange(probe.cmd.desired_runid) ) =>
            /\ ( /\ probe'.bumps > probe.bumps
                 /\ ~WithinRunidRange(WideSucc(probe.cmd.desired_runid)) ) =>
                   probe'.cmd.desired_runid = Wide(0, 1)
            /\ probe'.bumps > probe.bumps => WithinRunidRange(probe'.cmd.desired_runid)
            /\ \A i \in DOMAIN probe'.cmd_msg :
                   FitsInt32(probe'.cmd_msg[i].desired_runid) ]_vars

\* C31: whenever a call or an inbound message that is handled to its end
\* takes a command that stays in its table from one status of the table to a
\* different one (TryingToStart to Restarting, Restarting to TryingToStop,
\* TryingToStop to Removing, ...), a command-status-changed signal is emitted
\* for that command
C31_StatusChangeSignalled ==
    [][ \A h \in Hosts, k \in 0 .. MaxMsgId + MaxAdds :
          ( /\ raised' = None
            /\ SameObject(h, k)
            /\ statusBranch(deputies[h].commands[k])
                 # statusBranch(deputies'[h].commands[k]) ) =>
              \E i \in DOMAIN events' :
                  /\ events'[i].sig = "command-status-changed"
                  /\ events'[i].cmd.sheriff_id = k ]_vars

\* the commands that are not scheduled for removal, as << host, key >>
Live(deps) ==
    UNION { { << h, k >> : k \in { x \in DOMAIN deps[h].commands :
                                     ~deps[h].commands[x].scheduled_for_removal } }
            : h \in DOMAIN deps }

\* the command c is the parsed command p, added and never started
AsParsed(h, c, p) ==
    /\ h = p.host /\ c.name = p.exec /\ c.nickname = p.nickname /\ c.group = p.group
    /\ c.auto_respawn = p.auto_respawn
    /\ c.sheriff_id # 0 /\ c.desired_runid = 0 /\ c.pid = -1

\* C32: after a load_config that completes outside observer mode with no
\* script active, every command that existed before is deleted or scheduled
\* for removal (the commands not scheduled are as many as the parsed ones and
\* each parsed command is one of them, on the deputy of its host attribute,
\* with a sheriff_id no other command of any table has), the scripts are the
\* parsed scripts and no other, and the orders built next list, for every
\* deputy, exactly its parsed commands
C32_LoadConfigReplaces ==
    [][ ( /\ op'.name = "load_config" /\ raised' = None
          /\ ~_is_observer /\ active_script_context = << >> ) =>
            /\ Cardinality(Live(deputies')) = Len(probe'.cmds)
            /\ \E f \in [ DOMAIN probe'.cmds -> Live(deputies') ] :
                 /\ \A i, j \in DOMAIN f : i # j => f[i] # f[j]
                 /\ \A i \in DOMAIN f :
                        AsParsed(f[i][1], deputies'[f[i][1]].commands[f[i][2]],
                                 probe'.cmds[i])
            /\ \A x \in Live(deputies'), h \in DOMAIN deputies' :
                 \A k \in DOMAIN deputies'[h].commands :
                    << h, k >> # x =>
                        deputies'[h].commands[k].sheriff_id
                          # deputies'[x[1]].commands[x[2]].sheriff_id
            /\ \A hk \in Held :
                 \/ hk[1] \notin DOMAIN deputies'
                 \/ hk[2] \notin DOMAIN deputies'[hk[1]].commands
                 \/ deputies'[hk[1]].commands[hk[2]].scheduled_for_removal
            /\ scripts' = [ i \in DOMAIN probe'.scripts |->
                              from_script_node(probe'.scripts[i]) ]
            /\ \A h \in DOMAIN deputies' :
                 { _make_orders_message(h, deputies'[h]).cmds[i].sheriff_id
                   : i \in DOMAIN _make_orders_message(h, deputies'[h]).cmds }
                   = { x[2] : x \in { y \in Live(deputies') : y[1] = h } } ]_vars

\* a configuration of two commands and a script has replaced a command that
\* its deputy had reported and a script
C32_Replaced ==
    /\ op.name = "load_config" /\ raised = None
    /\ Len(probe.cmds) = 2
    /\ Len(probe.scripts) = 1
    /\ Len(scripts) = 1
    /\ \E h \in DOMAIN deputies : \E k \in DOMAIN deputies[h].commands :
          deputies[h].commands[k].scheduled_for_removal
    /\ \E i \in DOMAIN events : events[i].sig = "script-removed"

\* a script is being executed
ScriptActive == active_script_context # << >>

\* C33: when the pending timeouts run, a script that is being executed and
\* does not wait on a non-empty cohort eventually finishes or comes to wait
\* on a non-empty cohort: in particular an action with wait_status whose
\* targets resolve to no command does not leave the script active for ever.
C33_EmptyCohortDoesNotHang ==
    ( ScriptActive /\ ~Waiting ) ~> ( ~ScriptActive \/ Waiting )

\* the executor is left with a status to wait for and no command to wait on,
\* the script active and no timeout pending
C33_WaitingOnNobody ==
    /\ ScriptActive /\ ~Waiting
    /\ waiting_for_status # None
    /\ timeouts = 0

\* the sheriff ids the orders published by the last call list
Advertised ==
    UNION { { m.cmds[i].sheriff_id : i \in DOMAIN m.cmds } : m \in PublishedMessages }

\* C34: no orders message lists the sheriff id of a command the operator has
\* scheduled for removal, as long as no command added since carries that id,
\* whatever info messages of the deputy arrive in between.
C34_RemovedNeverAdvertisedAgain ==
    Advertised \cap probe.scheduled = {}

\* orders are sent after a command was scheduled for removal
C34_OrdersAfterRemoval ==
    /\ op.name = "send_orders" /\ raised = None
    /\ probe.scheduled # {}

\* deputy h holds a command with sheriff id k
Holds(deps, h, k) == h \in DOMAIN deps /\ k \in DOMAIN deps[h].commands

\* the positions in evs of the signals sig of deputy h about sheriff id k
SignalsOf(evs, sig, h, k) ==
    { i \in DOMAIN evs : /\ evs[i].sig = sig
                         /\ evs[i].host = h
                         /\ evs[i].cmd.sheriff_id = k }

\* the positions in evs of the command-status-changed signals about sheriff id k
StatusSignalsOf(evs, k) ==
    { i \in DOMAIN evs : /\ evs[i].sig = "command-status-changed"
                         /\ evs[i].cmd.sheriff_id = k }

\* no other deputy than h holds a command with sheriff id k, before or after
\* the step: a command-status-changed about k is about the command of h
SoleHolder(h, k) ==
    \A g \in Hosts \ { h } : ~Holds(deputies, g, k) /\ ~Holds(deputies', g, k)

\* C35: a call that returns and brings a command into the table of a deputy
\* emits exactly one command-added for it, with no command-status-changed for
\* it before; a call that returns and takes a command out of the model
\* (removed from the table of its deputy, or its deputy dropped) emits exactly
\* one command-removed for it, with no command-status-changed for it after
\* (the order is required where the sheriff id names one command only).
C35_LifecycleSignalsPaired ==
    [][ raised' = None =>
          \A h \in Hosts, k \in 0 .. MaxMsgId + MaxAdds :
            /\ ( ~Holds(deputies, h, k) /\ Holds(deputies', h, k) ) =>
                 /\ Cardinality(SignalsOf(events', "command-added", h, k)) = 1
                 /\ SoleHolder(h, k) =>
                      \A i \in SignalsOf(events', "command-added", h, k),
                         j \in StatusSignalsOf(events', k) : i < j
            /\ ( Holds(deputies, h, k) /\ ~Holds(deputies', h, k) ) =>
                 /\ Cardinality(SignalsOf(events', "command-removed", h, k)) = 1
                 /\ SoleHolder(h, k) =>
                      \A i \in SignalsOf(events', "command-removed", h, k),
                         j \in StatusSignalsOf(events', k) : j < i ]_vars

\* C35, outside purge_useless_deputies: the signals of every other call that
\* returns are paired with the commands that enter and leave the tables.
C35_PairedOutsidePurge ==
    [][ ( raised' = None /\ op'.name # "purge_useless_deputies" ) =>
          \A h \in Hosts, k \in 0 .. MaxMsgId + MaxAdds :
            /\ ( ~Holds(deputies, h, k) /\ Holds(deputies', h, k) ) =>
                 Cardinality(SignalsOf(events', "command-added", h, k)) = 1
            /\ ( Holds(deputies, h, k) /\ ~Holds(deputies', h, k) ) =>
                 Cardinality(SignalsOf(events', "command-removed", h, k)) = 1 ]_vars

====
